---- MODULE Spec2Model ----
(***************************************************************************)
(* State-machine model of the streaming row-classification engine of       *)
(* mteam-dashboard-action-processor.                                       *)
(*                                                                         *)
(* The repository holds three generations of the same pipeline:            *)
(*   - the library pipeline  csv_row_processor.rs + plot_processors.rs +   *)
(*     detection/mod.rs                       (specification Spec),        *)
(*   - the earlier library pipeline  row_processing.rs +                   *)
(*     plot_point_processors.rs + util.rs     (specification SpecMerge),   *)
(*   - the command-line pipeline  main.rs     (specification SpecMain),    *)
(* and they share the row type (action_csv_row.rs), the state              *)
(* (state_management.rs) and the output shapes (scatter_points.rs).        *)
(*                                                                         *)
(* Option<T> is modelled as a sequence of length 0 (None) or 1 (Some).     *)
(* Vec<T> and VecDeque<T> are sequences, the last element being the top /  *)
(* the back.  Strings are TLA+ strings; functions over strings (regex      *)
(* match, trimming, case folding) are tabulated on the concrete strings    *)
(* the inputs are drawn from.                                              *)
(***************************************************************************)
EXTENDS Integers, Sequences, FiniteSets, TLC

VARIABLES
    max_rows_to_check,      \* CsvProcessingState.max_rows_to_check
    recent_rows,            \* CsvProcessingState.recent_rows   (VecDeque)
    stage_boundaries,       \* CsvProcessingState.stage_boundaries (Vec)
    cpr_points,             \* CsvProcessingState.cpr_points    (Vec)
    pending_error_marker,   \* CsvProcessingState.pending_error_marker
    row_idx,                \* the enumerate() counter of process_csv
    rows,                   \* history: the records read so far, with their parse
    output,                 \* history: the results yielded so far
    headers,                \* the header row of the file
    header_validation,      \* what validate_csv_header returned for it
    merge_calls             \* history: the calls of merge_plot_location_range

vars == <<max_rows_to_check, recent_rows, stage_boundaries, cpr_points,
          pending_error_marker, row_idx, rows, output, headers, header_validation,
          merge_calls>>

(***************************************************************************)
(* Bounds of the model.                                                    *)
(***************************************************************************)
MaxRows == 3        \* number of records read from the input
MaxWindow == 2      \* largest configured max_rows_to_check

(***************************************************************************)
(* Option and small helpers.                                               *)
(***************************************************************************)
None == <<>>
Some(x) == <<x>>
IsSome(o) == Len(o) = 1
IsNone(o) == Len(o) = 0
Unwrap(o) == o[1]
UnwrapOr(o, d) == IF IsSome(o) THEN o[1] ELSE d

abs_diff(a, b) == IF a >= b THEN a - b ELSE b - a

\* Vec::pop / VecDeque::pop_front on sequences
PopBack(v) == IF Len(v) = 0 THEN v ELSE SubSeq(v, 1, Len(v) - 1)
PopFront(v) == IF Len(v) = 0 THEN v ELSE Tail(v)
Top(v) == IF Len(v) = 0 THEN None ELSE Some(v[Len(v)])

(***************************************************************************)
(* Program constants.                                                      *)
(***************************************************************************)
ERROR_MARKER_TIME_THRESHOLD == 2
CPR_START_MARKERS == {"begin cpr", "enter cpr"}
CPR_END_MARKERS == {"stop cpr", "end cpr"}

(***************************************************************************)
(* Strings of the inputs, and the string functions tabulated on them.      *)
(***************************************************************************)
Stage1Name == "(1) Stage1 (action)"
Stage2Name == "(2)Stage2(action)"
VitalName == "Heart Rate"

\* str::trim
trim(s) == CASE s = " " -> ""
             [] s = " 0:01 " -> "0:01"
             [] OTHER -> s

\* normalize_whitespace(s.to_lowercase()) as used by check_cpr
normalize_lowercase(s) ==
    CASE s = "Begin CPR" -> "begin cpr"
      [] s = "end  cpr" -> "end cpr"
      [] s = "check pulse" -> "check pulse"
      [] s = "Pulse rule" -> "pulse rule"
      [] s = " " -> ""
      [] OTHER -> s

\* the regex ^\s*\((\d+)\)\s*(.+?)\s*\(action\)\s*$ followed by
\* normalize_whitespace on the captured text
extract_stage_name(input) ==
    CASE input = Stage1Name -> Some(<<1, "Stage1">>)
      [] input = Stage2Name -> Some(<<2, "Stage2">>)
      [] OTHER -> None

\* capitalize_words, removal of UNAVAILABLE, extract_shock_value, the
\* correction table and the category table
process_action_name(input) ==
    CASE input = "check pulse" -> <<"Check Pulse", "Check Pulse", "">>
      [] input = "Begin CPR" -> <<"Begin CPR", "Begin CPR", "">>
      [] input = "end  cpr" -> <<"End Cpr", "End Cpr", "">>
      [] input = "Pulse rule" -> <<"Pulse Rule", "Pulse Rule", "">>
      [] input = " " -> <<"", "", "">>
      [] OTHER -> <<input, input, "">>

(***************************************************************************)
(* Timestamps.  A raw timestamp field is the sequence of its               *)
(* colon-separated parts, each the text between two colons; the blank      *)
(* field is the empty sequence.  parse_time reads the clock (Utc::now()):   *)
(* today is the UTC date it reads, and date_string is that date followed by *)
(* the formatted time.  The arithmetic is that of u32: with overflow checks *)
(* (a debug build) an overflow panics, without them it wraps modulo 2^32.  *)
(***************************************************************************)
CsvRowTime_default == [total_seconds |-> 0, date_string |-> "", timestamp |-> ""]

\* str::parse::<u32>: Some(n) for the decimal text of a number below 2^32,
\* with an optional leading '+'; None for anything else
parse_u32(part) ==
    CASE part = "0" -> Some(0)
      [] part = "00" -> Some(0)
      [] part = "1" -> Some(1)
      [] part = "01" -> Some(1)
      [] part = "02" -> Some(2)
      [] part = "3" -> Some(3)
      [] part = "03" -> Some(3)
      [] part = "+5" -> Some(5)
      [] part = "59" -> Some(59)
      [] part = "60" -> Some(60)
      [] part = "75" -> Some(75)
      [] part = "1193047" -> Some(1193047)
      [] OTHER -> None

\* format!("{:02}", n)
format_02(n) == IF n < 10 THEN "0" \o ToString(n) ELSE ToString(n)

\* hours * 3600 + minutes * 60 + seconds in u32, computed on 16-bit halves:
\* whether the exact value overflows 32 bits, and the value modulo 2^32
u32_total_seconds(hours, minutes, seconds) ==
    LET low == (hours % 65536) * 3600 + minutes * 60 + seconds
        high == (hours \div 65536) * 3600 + (low \div 65536)
    IN  [overflow |-> high >= 65536,
         wrapped |-> (high % 65536) * 65536 + (low % 65536)]

PANIC_MSG == "attempt to multiply with overflow"

\* returns whether the call panics, and the Option it returns otherwise
parse_time(input, today, overflow_checks) ==
    IF Len(input) # 3 THEN [panic |-> FALSE, ret |-> None]
    ELSE IF \E i \in 1..3 : IsNone(parse_u32(input[i]))
    THEN [panic |-> FALSE, ret |-> None]
    ELSE LET hours == Unwrap(parse_u32(input[1]))
             minutes == Unwrap(parse_u32(input[2]))
             seconds == Unwrap(parse_u32(input[3]))
             total_seconds == u32_total_seconds(hours, minutes, seconds)
             formatted_input == format_02(hours) \o ":" \o format_02(minutes)
                                    \o ":" \o format_02(seconds)
         IN  IF minutes >= 60 \/ seconds >= 60 THEN [panic |-> FALSE, ret |-> None]
             ELSE IF total_seconds.overflow /\ overflow_checks
             THEN [panic |-> TRUE, ret |-> None]
             ELSE [panic |-> FALSE,
                   ret |-> Some([total_seconds |-> total_seconds.wrapped,
                                 date_string |-> today \o " " \o formatted_input,
                                 timestamp |-> formatted_input])]

\* the serde deserialize_with of the timestamp column: Ok(parse_time(s)) for
\* a non-blank field, Err for a blank one
non_empty_string(value, today, overflow_checks) ==
    IF Len(value) # 0 /\ ~(Len(value) = 1 /\ trim(value[1]) = "")
    THEN LET parsed == parse_time(value, today, overflow_checks)
         IN  [ok |-> TRUE, panic |-> parsed.panic, value |-> parsed.ret]
    ELSE [ok |-> FALSE, panic |-> FALSE, err |-> "Field cannot be empty"]

(***************************************************************************)
(* Row predicates (detection/mod.rs; util.rs holds the same definitions).  *)
(***************************************************************************)
is_action_row(csv_row) ==
    /\ IsSome(csv_row.parsed_stage)
    /\ trim(csv_row.subaction_time) # ""
    /\ csv_row.subaction_name # ""

\* the stage-boundary test that looks at the stage, the subaction time and
\* the subaction name only
is_stage_boundary_ignoring_values(csv_row) ==
    /\ IsSome(csv_row.parsed_stage)
    /\ trim(csv_row.subaction_time) = ""
    /\ csv_row.subaction_name = ""

is_stage_boundary(csv_row) ==
    /\ IsSome(csv_row.parsed_stage)
    /\ trim(csv_row.subaction_time) = ""
    /\ csv_row.subaction_name = ""
    /\ csv_row.score = ""
    /\ csv_row.old_value = ""
    /\ csv_row.new_value = ""

is_error_action_marker(csv_row) ==
    /\ trim(csv_row.old_value) = "Error-Triggered"
    /\ trim(csv_row.score) = "Action-Was-Performed"

is_missed_action(csv_row) ==
    /\ trim(csv_row.old_value) = "Error-Triggered"
    /\ trim(csv_row.score) = "Action-Was-Not-Performed"

\* the time test that only bounds how far the second row lies after the first
can_mark_each_other_one_way(csv_row1, csv_row2) ==
    LET marker_time == UnwrapOr(csv_row1.timestamp, CsvRowTime_default).total_seconds
        current_time == UnwrapOr(csv_row2.timestamp, CsvRowTime_default).total_seconds
    IN  current_time - marker_time <= ERROR_MARKER_TIME_THRESHOLD

can_mark_each_other(csv_row1, csv_row2) ==
    LET marker_time == UnwrapOr(csv_row1.timestamp, CsvRowTime_default).total_seconds
        current_time == UnwrapOr(csv_row2.timestamp, CsvRowTime_default).total_seconds
    IN  abs_diff(marker_time, current_time) <= ERROR_MARKER_TIME_THRESHOLD


\* is_erroneous_action without the time test
is_erroneous_action_no_time(csv_row, error_marker_row) ==
    /\ csv_row.action_point
    /\ error_marker_row.username = csv_row.action_vital_name

is_erroneous_action(csv_row, error_marker_row) ==
    /\ csv_row.action_point
    /\ error_marker_row.username = csv_row.action_vital_name
    /\ can_mark_each_other(csv_row, error_marker_row)

(***************************************************************************)
(* ActionCsvRow: deserialization of one record and post_deserialize.       *)
(* The field line is not a field of the program's row: it is the position  *)
(* of the record in the input, carried along so that properties can name   *)
(* the row a point was built from.                                         *)
(***************************************************************************)
deserialize(raw_row, line) ==
    LET ts == non_empty_string(raw_row.timestamp, raw_row.now, raw_row.overflow_checks)
    IN  IF ts.panic THEN [ok |-> FALSE, err |-> PANIC_MSG]
        ELSE IF ~ts.ok THEN [ok |-> FALSE, err |-> ts.err]
        ELSE [ok |-> TRUE,
              row |-> [timestamp |-> ts.value,
                       action_vital_name |-> raw_row.action_vital_name,
                       subaction_time |-> raw_row.subaction_time,
                       subaction_name |-> raw_row.subaction_name,
                       score |-> raw_row.score,
                       old_value |-> raw_row.old_value,
                       new_value |-> raw_row.new_value,
                       username |-> raw_row.username,
                       speech_command |-> raw_row.speech_command,
                       parsed_stage |-> None,
                       action_name |-> "",
                       action_category |-> "",
                       shock_value |-> "",
                       action_point |-> FALSE,
                       stage_boundary |-> FALSE,
                       error_action_marker |-> FALSE,
                       missed_action_marker |-> FALSE,
                       line |-> line]]

post_deserialize(self) ==
    LET s1 == [self EXCEPT !.parsed_stage = extract_stage_name(self.action_vital_name)]
        s2 == [s1 EXCEPT !.action_point = is_action_row(s1)]
        s3 == [s2 EXCEPT !.stage_boundary = is_stage_boundary(s2)]
        s4 == [s3 EXCEPT !.error_action_marker = is_error_action_marker(s3)]
        s5 == [s4 EXCEPT !.missed_action_marker = is_missed_action(s4)]
        processed_action_name == process_action_name(self.subaction_name)
    IN  [s5 EXCEPT !.action_name = processed_action_name[1],
                   !.action_category = processed_action_name[2],
                   !.shock_value = processed_action_name[3]]

\* result is what the csv reader hands over: an error, or a raw record
parse_csv_row(result, line) ==
    IF ~result.ok THEN [ok |-> FALSE, err |-> "Could not deserialize row"]
    ELSE LET d == deserialize(result.record, line)
         IN  IF ~d.ok
             THEN [ok |-> FALSE,
                   err |-> IF d.err = PANIC_MSG THEN PANIC_MSG
                           ELSE "Could not deserialize row"]
             ELSE [ok |-> TRUE, row |-> post_deserialize(d.row)]

(***************************************************************************)
(* Output shapes (scatter_points.rs).                                      *)
(***************************************************************************)
PlotLocation_default == [timestamp |-> CsvRowTime_default, stage |-> <<0, "">>]

PlotLocation_new(row) ==
    [timestamp |-> UnwrapOr(row.timestamp, CsvRowTime_default),
     stage |-> UnwrapOr(row.parsed_stage, PlotLocation_default.stage)]

\* the error info reading the violation from the Old Value column
ErrorInfo_new_from_old_value(row) ==
    [action_rule |-> row.subaction_name,
     violation |-> row.old_value,
     advice |-> row.speech_command]

ErrorInfo_new(row) ==
    [action_rule |-> row.subaction_name,
     violation |-> row.score,
     advice |-> row.speech_command]

Action_new(row) ==
    [kind |-> "Action",
     location |-> [timestamp |-> UnwrapOr(row.timestamp, CsvRowTime_default),
                   stage |-> UnwrapOr(row.parsed_stage, PlotLocation_default.stage)],
     name |-> row.action_name,
     action_category |-> row.action_category,
     shock_value |-> row.shock_value,
     action_line |-> row.line]

\* action_line and marker_line name the two rows the point was built from
ErroneousAction_new(action_row, error_marker_row) ==
    [kind |-> "Error",
     location |-> PlotLocation_new(action_row),
     name |-> action_row.action_name,
     action_category |-> action_row.action_category,
     shock_value |-> action_row.shock_value,
     error_info |-> ErrorInfo_new(error_marker_row),
     action_line |-> action_row.line,
     marker_line |-> error_marker_row.line]

MissedAction_new(row) ==
    [kind |-> "MissedAction",
     location |-> PlotLocation_new(row),
     action_name |-> row.action_vital_name,
     error_info |-> ErrorInfo_new(row),
     action_line |-> row.line]

\* ActionPlotPoint::Period(period_type, start, end)
Period(period_type, start, end) ==
    [kind |-> "Period", period_type |-> period_type, start |-> start, end |-> end]

Ok(point) == [ok |-> TRUE, point |-> point]
Err(msg) == [ok |-> FALSE, err |-> msg]

(***************************************************************************)
(* CPR vocabulary (detection/mod.rs check_cpr): None, or the direction and *)
(* the location of the row.                                                *)
(***************************************************************************)
check_cpr(csv_row) ==
    LET normalized_action_name == normalize_lowercase(csv_row.subaction_name)
    IN  IF normalized_action_name \in CPR_START_MARKERS
        THEN Some(<<"START", PlotLocation_new(csv_row)>>)
        ELSE IF normalized_action_name \in CPR_END_MARKERS
        THEN Some(<<"END", PlotLocation_new(csv_row)>>)
        ELSE None

(***************************************************************************)
(* The processing state and the steps of the library pipeline              *)
(* (plot_processors.rs).  Each step returns what the Rust function         *)
(* returns (ret: an Option of a Result) and the state it leaves.           *)
(***************************************************************************)
CsvProcessingState_new(max_rows) ==
    [max_rows_to_check |-> max_rows,
     recent_rows |-> <<>>,
     stage_boundaries |-> <<PlotLocation_default>>,
     cpr_points |-> <<>>,
     pending_error_marker |-> None]

update_recent_rows(current_row, recent, max_rows) ==
    LET trimmed == IF Len(recent) >= max_rows THEN PopFront(recent) ELSE recent
    IN  Append(trimmed, current_row)


\* process_stage_boundary guarded by the parsed stage alone
process_stage_boundary_any_stage_row(stage_boundary_points, csv_row) ==
    IF ~IsSome(csv_row.parsed_stage)
    THEN [ret |-> None, stage_boundary_points |-> stage_boundary_points]
    ELSE LET popped == Top(stage_boundary_points)
             start_location ==
                 IF IsNone(popped) THEN PlotLocation_new(csv_row)
                 ELSE [Unwrap(popped) EXCEPT !.stage = Unwrap(csv_row.parsed_stage)]
         IN  [ret |-> Some(Ok(Period("Stage", start_location, PlotLocation_new(csv_row)))),
              stage_boundary_points |->
                  Append(PopBack(stage_boundary_points), PlotLocation_new(csv_row))]

\* process_stage_boundary that keeps the stored stage of the start location
process_stage_boundary_keep_stage(stage_boundary_points, csv_row) ==
    IF ~is_stage_boundary(csv_row)
    THEN [ret |-> None, stage_boundary_points |-> stage_boundary_points]
    ELSE LET popped == Top(stage_boundary_points)
             start_location ==
                 IF IsNone(popped) THEN PlotLocation_new(csv_row) ELSE Unwrap(popped)
         IN  [ret |-> Some(Ok(Period("Stage", start_location, PlotLocation_new(csv_row)))),
              stage_boundary_points |->
                  Append(PopBack(stage_boundary_points), PlotLocation_new(csv_row))]

\* the stage step that reads the top of the tracker without taking it out
process_stage_boundary_no_pop(stage_boundary_points, csv_row) ==
    IF ~is_stage_boundary(csv_row)
    THEN [ret |-> None, stage_boundary_points |-> stage_boundary_points]
    ELSE LET popped == Top(stage_boundary_points)
             start_location ==
                 IF IsNone(popped) THEN PlotLocation_new(csv_row)
                 ELSE [Unwrap(popped) EXCEPT !.stage = Unwrap(csv_row.parsed_stage)]
         IN  [ret |-> Some(Ok(Period("Stage", start_location, PlotLocation_new(csv_row)))),
              stage_boundary_points |->
                  Append(stage_boundary_points, PlotLocation_new(csv_row))]

\* the stage step that starts the first period at the default location
process_stage_boundary_default_start(stage_boundary_points, csv_row) ==
    IF ~is_stage_boundary(csv_row)
    THEN [ret |-> None, stage_boundary_points |-> stage_boundary_points]
    ELSE LET popped == Top(stage_boundary_points)
             start_location ==
                 [UnwrapOr(popped, PlotLocation_default)
                      EXCEPT !.stage = Unwrap(csv_row.parsed_stage)]
         IN  [ret |-> Some(Ok(Period("Stage", start_location, PlotLocation_new(csv_row)))),
              stage_boundary_points |->
                  Append(PopBack(stage_boundary_points), PlotLocation_new(csv_row))]

process_stage_boundary(stage_boundary_points, csv_row) ==
    IF ~is_stage_boundary(csv_row)
    THEN [ret |-> None, stage_boundary_points |-> stage_boundary_points]
    ELSE LET popped == Top(stage_boundary_points)
             start_location ==
                 IF IsNone(popped) THEN PlotLocation_new(csv_row)
                 ELSE [Unwrap(popped) EXCEPT !.stage = Unwrap(csv_row.parsed_stage)]
         IN  [ret |-> Some(Ok(Period("Stage", start_location, PlotLocation_new(csv_row)))),
              stage_boundary_points |->
                  Append(PopBack(stage_boundary_points), PlotLocation_new(csv_row))]

\* process_cpr_lines reading the stored entry without removing it
process_cpr_lines_keep_entry(points, csv_row) ==
    IF IsNone(check_cpr(csv_row))
    THEN [ret |-> None, cpr_points |-> points]
    ELSE LET location == PlotLocation_new(csv_row)
             previous_cpr == Top(points)
         IN  IF IsSome(previous_cpr)
             THEN [ret |-> Some(Ok(Period("CPR", Unwrap(previous_cpr)[1], location))),
                   cpr_points |-> points]
             ELSE [ret |-> None,
                   cpr_points |-> Append(points, <<location, location>>)]

process_cpr_lines(points, csv_row) ==
    IF IsNone(check_cpr(csv_row))
    THEN [ret |-> None, cpr_points |-> points]
    ELSE LET location == PlotLocation_new(csv_row)
             previous_cpr == Top(points)
         IN  IF IsSome(previous_cpr)
             THEN [ret |-> Some(Ok(Period("CPR", Unwrap(previous_cpr)[1], location))),
                   cpr_points |-> PopBack(points)]
             ELSE [ret |-> None,
                   cpr_points |-> Append(points, <<location, location>>)]


\* the forward check building the point with its two rows exchanged
check_pending_swapped_rows(pending, idx, current_row) ==
    IF IsNone(pending) THEN [ret |-> None, pending_error_marker |-> pending]
    ELSE LET error_marker_row == Unwrap(pending)[2]
         IN  IF is_erroneous_action(current_row, error_marker_row)
             THEN [ret |-> Some(ErroneousAction_new(error_marker_row, current_row)),
                   pending_error_marker |-> None]
             ELSE IF ~can_mark_each_other(current_row, error_marker_row)
             THEN [ret |-> None, pending_error_marker |-> None]
             ELSE [ret |-> None, pending_error_marker |-> pending]

\* the forward check that only expires the pending marker and never pairs it
check_pending_expire_only(pending, idx, current_row) ==
    IF IsNone(pending) THEN [ret |-> None, pending_error_marker |-> pending]
    ELSE LET error_marker_row == Unwrap(pending)[2]
         IN  IF ~can_mark_each_other(current_row, error_marker_row)
             THEN [ret |-> None, pending_error_marker |-> None]
             ELSE [ret |-> None, pending_error_marker |-> pending]

\* the forward check that leaves the marker pending after it was paired
check_pending_keep_matched(pending, idx, current_row) ==
    IF IsNone(pending) THEN [ret |-> None, pending_error_marker |-> pending]
    ELSE LET error_marker_row == Unwrap(pending)[2]
         IN  IF is_erroneous_action(current_row, error_marker_row)
             THEN [ret |-> Some(ErroneousAction_new(current_row, error_marker_row)),
                   pending_error_marker |-> pending]
             ELSE IF ~can_mark_each_other(current_row, error_marker_row)
             THEN [ret |-> None, pending_error_marker |-> None]
             ELSE [ret |-> None, pending_error_marker |-> pending]

\* the forward check that keeps a marker pending whatever the time distance
check_pending_no_expiry(pending, idx, current_row) ==
    IF IsNone(pending) THEN [ret |-> None, pending_error_marker |-> pending]
    ELSE LET error_marker_row == Unwrap(pending)[2]
         IN  IF is_erroneous_action(current_row, error_marker_row)
             THEN [ret |-> Some(ErroneousAction_new(current_row, error_marker_row)),
                   pending_error_marker |-> None]
             ELSE [ret |-> None, pending_error_marker |-> pending]

\* the forward check that forgets the pending marker on any row that does
\* not match it
check_pending_clear_on_mismatch(pending, idx, current_row) ==
    IF IsNone(pending) THEN [ret |-> None, pending_error_marker |-> pending]
    ELSE LET error_marker_row == Unwrap(pending)[2]
         IN  IF is_erroneous_action(current_row, error_marker_row)
             THEN [ret |-> Some(ErroneousAction_new(current_row, error_marker_row)),
                   pending_error_marker |-> None]
             ELSE [ret |-> None, pending_error_marker |-> None]

\* returns an Option of a point, and the pending-marker cell it leaves
check_pending_erroneous_action_marker(pending, idx, current_row) ==
    IF IsNone(pending) THEN [ret |-> None, pending_error_marker |-> pending]
    ELSE LET error_marker_row == Unwrap(pending)[2]
         IN  IF is_erroneous_action(current_row, error_marker_row)
             THEN [ret |-> Some(ErroneousAction_new(current_row, error_marker_row)),
                   pending_error_marker |-> None]
             ELSE IF ~can_mark_each_other(current_row, error_marker_row)
             THEN [ret |-> None, pending_error_marker |-> None]
             ELSE [ret |-> None, pending_error_marker |-> pending]

\* visited_rows_buffer.iter().rev(): the first match from the back
RECURSIVE seek_from(_, _, _)
seek_from(visited_rows_buffer, error_marker_row, i) ==
    IF i = 0 THEN None
    ELSE IF is_erroneous_action(visited_rows_buffer[i], error_marker_row)
    THEN Some(Ok(ErroneousAction_new(visited_rows_buffer[i], error_marker_row)))
    ELSE seek_from(visited_rows_buffer, error_marker_row, i - 1)


\* the search without rev(): the first match from the front
RECURSIVE seek_from_front(_, _, _)
seek_from_front(visited_rows_buffer, error_marker_row, i) ==
    IF i > Len(visited_rows_buffer) THEN None
    ELSE IF is_erroneous_action(visited_rows_buffer[i], error_marker_row)
    THEN Some(Ok(ErroneousAction_new(visited_rows_buffer[i], error_marker_row)))
    ELSE seek_from_front(visited_rows_buffer, error_marker_row, i + 1)

seek_oldest_first(visited_rows_buffer, error_marker_row, idx) ==
    seek_from_front(visited_rows_buffer, error_marker_row, 1)

\* the search that leaves out the newest row of the buffer, the row being
\* processed
seek_before_current_row(visited_rows_buffer, error_marker_row, idx) ==
    seek_from(visited_rows_buffer, error_marker_row, Len(visited_rows_buffer) - 1)

seek_erroneous_action_in_visited_rows(visited_rows_buffer, error_marker_row, idx) ==
    seek_from(visited_rows_buffer, error_marker_row, Len(visited_rows_buffer))

\* the marker correlation that stores an unmatched marker only in an empty
\* cell
process_erroneous_action_keep_older(recent, pending, idx, current_row) ==
    LET chk == check_pending_erroneous_action_marker(pending, idx, current_row)
    IN  IF IsSome(chk.ret)
        THEN [ret |-> Some(Ok(Unwrap(chk.ret))),
              pending_error_marker |-> chk.pending_error_marker]
        ELSE IF is_error_action_marker(current_row)
        THEN LET found == seek_erroneous_action_in_visited_rows(recent, current_row, idx)
             IN  IF IsSome(found)
                 THEN [ret |-> found, pending_error_marker |-> chk.pending_error_marker]
                 ELSE [ret |-> None,
                       pending_error_marker |->
                           IF IsSome(chk.pending_error_marker)
                           THEN chk.pending_error_marker
                           ELSE Some(<<idx, current_row>>)]
        ELSE IF is_missed_action(current_row)
        THEN [ret |-> Some(Ok(MissedAction_new(current_row))),
              pending_error_marker |-> chk.pending_error_marker]
        ELSE [ret |-> None, pending_error_marker |-> chk.pending_error_marker]

\* the marker correlation that stores as pending also a marker the backward
\* search resolved
process_erroneous_action_store_resolved(recent, pending, idx, current_row) ==
    LET chk == check_pending_erroneous_action_marker(pending, idx, current_row)
    IN  IF IsSome(chk.ret)
        THEN [ret |-> Some(Ok(Unwrap(chk.ret))),
              pending_error_marker |-> chk.pending_error_marker]
        ELSE IF is_error_action_marker(current_row)
        THEN LET found == seek_erroneous_action_in_visited_rows(recent, current_row, idx)
             IN  [ret |-> found, pending_error_marker |-> Some(<<idx, current_row>>)]
        ELSE IF is_missed_action(current_row)
        THEN [ret |-> Some(Ok(MissedAction_new(current_row))),
              pending_error_marker |-> chk.pending_error_marker]
        ELSE [ret |-> None, pending_error_marker |-> chk.pending_error_marker]

process_erroneous_action(recent, pending, idx, current_row) ==
    LET chk == check_pending_erroneous_action_marker(pending, idx, current_row)
    IN  IF IsSome(chk.ret)
        THEN [ret |-> Some(Ok(Unwrap(chk.ret))),
              pending_error_marker |-> chk.pending_error_marker]
        ELSE IF is_error_action_marker(current_row)
        THEN LET found == seek_erroneous_action_in_visited_rows(recent, current_row, idx)
             IN  IF IsSome(found)
                 THEN [ret |-> found, pending_error_marker |-> chk.pending_error_marker]
                 ELSE [ret |-> None,
                       pending_error_marker |-> Some(<<idx, current_row>>)]
        ELSE IF is_missed_action(current_row)
        THEN [ret |-> Some(Ok(MissedAction_new(current_row))),
              pending_error_marker |-> chk.pending_error_marker]
        ELSE [ret |-> None, pending_error_marker |-> chk.pending_error_marker]

process_action_point(current_row) ==
    IF current_row.action_point THEN Some(Ok(Action_new(current_row))) ELSE None

(***************************************************************************)
(* process_csv_row of csv_row_processor.rs: parse, push into the lookback  *)
(* buffer, then the or_else chain; a step runs only when every step before *)
(* it returned None, and keeps the state the earlier steps left.           *)
(***************************************************************************)
\* the chain in which a stage-boundary row also empties the pending-marker
\* cell
or_else_chain_boundary_clears_pending(idx, current_row, state) ==
    LET recent == update_recent_rows(current_row, state.recent_rows,
                                     state.max_rows_to_check)
        sb == process_stage_boundary(state.stage_boundaries, current_row)
        st1 == [state EXCEPT !.recent_rows = recent,
                             !.stage_boundaries = sb.stage_boundary_points]
    IN  IF IsSome(sb.ret)
        THEN [ret |-> sb.ret, state |-> [st1 EXCEPT !.pending_error_marker = None]]
        ELSE
        LET cpr == process_cpr_lines(st1.cpr_points, current_row)
            st2 == [st1 EXCEPT !.cpr_points = cpr.cpr_points]
        IN  IF IsSome(cpr.ret) THEN [ret |-> cpr.ret, state |-> st2]
            ELSE
            LET ea == process_erroneous_action(st2.recent_rows,
                          st2.pending_error_marker, idx, current_row)
                st3 == [st2 EXCEPT !.pending_error_marker = ea.pending_error_marker]
            IN  IF IsSome(ea.ret) THEN [ret |-> ea.ret, state |-> st3]
                ELSE [ret |-> process_action_point(current_row), state |-> st3]

or_else_chain(idx, current_row, state) ==
    LET recent == update_recent_rows(current_row, state.recent_rows,
                                     state.max_rows_to_check)
        sb == process_stage_boundary(state.stage_boundaries, current_row)
        st1 == [state EXCEPT !.recent_rows = recent,
                             !.stage_boundaries = sb.stage_boundary_points]
    IN  IF IsSome(sb.ret) THEN [ret |-> sb.ret, state |-> st1]
        ELSE
        LET cpr == process_cpr_lines(st1.cpr_points, current_row)
            st2 == [st1 EXCEPT !.cpr_points = cpr.cpr_points]
        IN  IF IsSome(cpr.ret) THEN [ret |-> cpr.ret, state |-> st2]
            ELSE
            LET ea == process_erroneous_action(st2.recent_rows,
                          st2.pending_error_marker, idx, current_row)
                st3 == [st2 EXCEPT !.pending_error_marker = ea.pending_error_marker]
            IN  IF IsSome(ea.ret) THEN [ret |-> ea.ret, state |-> st3]
                ELSE [ret |-> process_action_point(current_row), state |-> st3]

\* process_csv_row dropping the CPR tracker and the pending marker on a
\* record that fails to parse
process_csv_row_reset_on_error(idx, result, state) ==
    LET parsed == parse_csv_row(result, idx)
    IN  IF ~parsed.ok
        THEN [ret |-> Some(Err(parsed.err)),
              state |-> [state EXCEPT !.cpr_points = <<>>,
                                      !.pending_error_marker = None]]
        ELSE or_else_chain(idx, parsed.row, state)

process_csv_row(idx, result, state) ==
    LET parsed == parse_csv_row(result, idx)
    IN  IF ~parsed.ok THEN [ret |-> Some(Err(parsed.err)), state |-> state]
        ELSE or_else_chain(idx, parsed.row, state)

(***************************************************************************)
(* The input: what the csv reader yields for one line.                     *)
(***************************************************************************)
RawTimes == {<<"0", "00", "01">>, <<"0", "00", "03">>}
MalformedTime == <<"0", "75", "00">>
BlankTime == <<>>

Shape(vital, sub_time, sub_name, score, old_value, new_value, username, speech) ==
    [action_vital_name |-> vital, subaction_time |-> sub_time,
     subaction_name |-> sub_name, score |-> score, old_value |-> old_value,
     new_value |-> new_value, username |-> username, speech_command |-> speech]

Boundary1 == Shape(Stage1Name, "", "", "", "", "", "", "")
Boundary2 == Shape(Stage2Name, "", "", "", "", "", "", "")
Action1 == Shape(Stage1Name, "0:01", "check pulse", "", "", "", "", "")
Action2 == Shape(Stage2Name, "0:01", "check pulse", "", "", "", "", "")
\* an error marker naming the rows of stage 1
Marker1 ==
    Shape(VitalName, "", "Pulse rule", "Action-Was-Performed", "Error-Triggered",
          "", Stage1Name, "Check first")
\* an error marker that is itself an action point of the stage it names
MarkerAction1 ==
    Shape(Stage1Name, "0:01", "check pulse", "Action-Was-Performed",
          "Error-Triggered", "", Stage1Name, "Check first")
\* an error marker that is an action point of stage 1 and names stage 2
MarkerAction12 ==
    Shape(Stage1Name, "0:01", "check pulse", "Action-Was-Performed",
          "Error-Triggered", "", Stage2Name, "Check first")
Missed1 ==
    Shape(Stage1Name, "0:01", "check pulse", "Action-Was-Not-Performed",
          "Error-Triggered", "", "", "")
CprStart == Shape(Stage1Name, "0:01", "Begin CPR", "", "", "", "", "")
CprEnd == Shape(Stage1Name, "0:01", "end  cpr", "", "", "", "", "")
Vital == Shape(VitalName, "", "", "", "", "72", "", "")

Shapes == {Boundary1, Boundary2, Action1, Action2, Marker1, MarkerAction1,
           MarkerAction12, Missed1, CprStart, CprEnd, Vital}
\* the shapes that are also read with a malformed or with a blank timestamp
MalformedShapes == {Boundary1, Action1, Marker1}
BlankShapes == {Vital}

\* the dates the clock reads while a record is deserialized
FirstDay == "2024-05-01"
NextDay == "2024-05-02"
\* the records that are also read after midnight
NextDayTimes == {<<"0", "00", "01">>}
NextDayShapes == {Action1}

\* now is the date of the clock at the time the record is deserialized, and
\* overflow_checks tells whether the build panics on an arithmetic overflow
RawRecord(t, sh, day) ==
    [timestamp |-> t, now |-> day, overflow_checks |-> FALSE] @@ sh

\* a reader error, a record with a blank timestamp, a record with a
\* malformed timestamp, or a record with a well-formed one
Results ==
    {[ok |-> FALSE, err |-> "csv"]}
      \cup {[ok |-> TRUE, record |-> RawRecord(BlankTime, sh, FirstDay)] :
                sh \in BlankShapes}
      \cup {[ok |-> TRUE, record |-> RawRecord(MalformedTime, sh, FirstDay)] :
                sh \in MalformedShapes}
      \cup {[ok |-> TRUE, record |-> RawRecord(t, sh, FirstDay)] :
                t \in RawTimes, sh \in Shapes}
      \cup {[ok |-> TRUE, record |-> RawRecord(t, sh, NextDay)] :
                t \in NextDayTimes, sh \in NextDayShapes}

(***************************************************************************)
(* The header row (action_csv_row.rs).                                     *)
(***************************************************************************)
COLUMN_NAMES ==
    <<"Time Stamp[Hr:Min:Sec]", "Action/Vital Name", "SubAction Time[Min:Sec]",
      "SubAction Name", "Score", "Old Value", "New Value", "Username",
      "Speech Command">>

\* str::to_lowercase
to_lowercase(h) ==
    CASE h = "Time Stamp[Hr:Min:Sec]" -> "time stamp[hr:min:sec]"
      [] h = "time Stamp[Hr:Min:Sec]" -> "time stamp[hr:min:sec]"
      [] h = "Action/Vital Name" -> "action/vital name"
      [] h = "ActioN/Vital Name" -> "action/vital name"
      [] h = "SubAction Time[Min:Sec]" -> "subaction time[min:sec]"
      [] h = "SubAction Name" -> "subaction name"
      [] h = "Score" -> "score"
      [] h = "SCORE" -> "score"
      [] h = "Old Value" -> "old value"
      [] h = "New Value" -> "new value"
      [] h = "Username" -> "username"
      [] h = "Speech Command" -> "speech command"
      [] h = "Unknown Header" -> "unknown header"
      [] h = "Extra Column" -> "extra column"
      [] OTHER -> h

\* the message of the Err of validate_header: its three arguments
header_error(expected_headers, actual_headers) ==
    [line |-> 1, expected |-> expected_headers, got |-> actual_headers]

\* expected_iter.all(|expected| headers_iter.next() == Some(expected)): all
\* stops at the first expected name that finds no equal header at its place
RECURSIVE all_from(_, _, _)
all_from(actual_headers, expected_headers, i) ==
    IF i > Len(expected_headers) THEN TRUE
    ELSE IF i > Len(actual_headers) THEN FALSE
    ELSE IF to_lowercase(actual_headers[i]) # to_lowercase(expected_headers[i]) THEN FALSE
    ELSE all_from(actual_headers, expected_headers, i + 1)

\* the validation that also wants the two rows to have the same length
validate_header_same_length(actual_headers, expected_headers) ==
    IF /\ Len(actual_headers) = Len(expected_headers)
       /\ all_from(actual_headers, expected_headers, 1)
    THEN [ok |-> TRUE]
    ELSE [ok |-> FALSE, err |-> header_error(expected_headers, actual_headers)]

validate_header(actual_headers, expected_headers) ==
    IF all_from(actual_headers, expected_headers, 1)
    THEN [ok |-> TRUE]
    ELSE [ok |-> FALSE, err |-> header_error(expected_headers, actual_headers)]

\* apply_validation on a header row that the reader could read
validate_csv_header(actual_headers) == validate_header(actual_headers, COLUMN_NAMES)

(***************************************************************************)
(* The state machine of process_csv over csv_row_processor.rs.             *)
(***************************************************************************)
State ==
    [max_rows_to_check |-> max_rows_to_check,
     recent_rows |-> recent_rows,
     stage_boundaries |-> stage_boundaries,
     cpr_points |-> cpr_points,
     pending_error_marker |-> pending_error_marker]

SetState(st) ==
    /\ max_rows_to_check' = st.max_rows_to_check
    /\ recent_rows' = st.recent_rows
    /\ stage_boundaries' = st.stage_boundaries
    /\ cpr_points' = st.cpr_points
    /\ pending_error_marker' = st.pending_error_marker

Init ==
    /\ \E n \in 0..MaxWindow :
           /\ max_rows_to_check = n
           /\ recent_rows = CsvProcessingState_new(n).recent_rows
           /\ stage_boundaries = CsvProcessingState_new(n).stage_boundaries
           /\ cpr_points = CsvProcessingState_new(n).cpr_points
           /\ pending_error_marker = CsvProcessingState_new(n).pending_error_marker
    /\ row_idx = 0
    /\ rows = <<>>
    /\ output = <<>>
    /\ headers = COLUMN_NAMES
    /\ header_validation = validate_csv_header(COLUMN_NAMES)
    /\ merge_calls = <<>>


\* Yield putting the newest result in front of the older ones
Yield_newest_first(result, r) ==
    /\ SetState(r.state)
    /\ rows' = Append(rows, [result |-> result,
                             parsed |-> parse_csv_row(result, row_idx),
                             before |-> State, after |-> r.state])
    /\ output' = IF IsSome(r.ret)
                 THEN <<[line |-> row_idx, result |-> Unwrap(r.ret)]>> \o output
                 ELSE output
    /\ row_idx' = row_idx + 1
    /\ UNCHANGED <<headers, header_validation, merge_calls>>

\* the element that withdraws what was yielded before it: only the latest
\* result is kept
Yield_latest_only(result, r) ==
    /\ SetState(r.state)
    /\ rows' = Append(rows, [result |-> result,
                             parsed |-> parse_csv_row(result, row_idx),
                             before |-> State, after |-> r.state])
    /\ output' = IF IsSome(r.ret)
                 THEN <<[line |-> row_idx, result |-> Unwrap(r.ret)]>>
                 ELSE output
    /\ row_idx' = row_idx + 1
    /\ UNCHANGED <<headers, header_validation, merge_calls>>

\* one element of the filter_map of process_csv: the record with index
\* row_idx is processed and its result, if any, is yielded
Yield(result, r) ==
    /\ SetState(r.state)
    /\ rows' = Append(rows, [result |-> result,
                             parsed |-> parse_csv_row(result, row_idx),
                             before |-> State, after |-> r.state])
    /\ output' = IF IsSome(r.ret)
                 THEN Append(output, [line |-> row_idx, result |-> Unwrap(r.ret)])
                 ELSE output
    /\ row_idx' = row_idx + 1
    /\ UNCHANGED <<headers, header_validation, merge_calls>>

ProcessCsvRow ==
    /\ row_idx < MaxRows
    /\ \E result \in Results : Yield(result, process_csv_row(row_idx, result, State))

Next == ProcessCsvRow

Spec == Init /\ [][Next]_vars

(***************************************************************************)
(* The earlier pipeline (row_processing.rs + plot_point_processors.rs +    *)
(* util.rs): a CPR event is a half-open Period and two events are merged   *)
(* by merge_plot_location_range.  Period locations are Options here.       *)
(***************************************************************************)
MERGE_ERR_MSG == "Should have a begin and end point in order."
TYPE_ERR_MSG == "The periods you are trying to merge are of different types"

\* util.rs check_cpr
util_check_cpr(csv_row) ==
    LET normalized_action_name == normalize_lowercase(csv_row.subaction_name)
    IN  IF normalized_action_name \in CPR_START_MARKERS
        THEN Some(Period("CPR", Some(PlotLocation_new(csv_row)), None))
        ELSE IF normalized_action_name \in CPR_END_MARKERS
        THEN Some(Period("CPR", None, Some(PlotLocation_new(csv_row))))
        ELSE None


\* the closure merge letting the first of two present locations win
merge_first_wins(pos1, pos2) ==
    IF IsNone(pos1) /\ IsNone(pos2) THEN [ok |-> TRUE, value |-> None]
    ELSE IF IsSome(pos1) THEN [ok |-> TRUE, value |-> pos1]
    ELSE [ok |-> TRUE, value |-> pos2]

\* the closure merge of merge_plot_location_range
merge(pos1, pos2) ==
    IF IsNone(pos1) /\ IsNone(pos2) THEN [ok |-> TRUE, value |-> None]
    ELSE IF IsSome(pos1) /\ IsNone(pos2) THEN [ok |-> TRUE, value |-> pos1]
    ELSE IF IsNone(pos1) /\ IsSome(pos2) THEN [ok |-> TRUE, value |-> pos2]
    ELSE [ok |-> FALSE, err |-> MERGE_ERR_MSG]

\* merge_plot_location_range taking the start of its first argument and the
\* end of its second
merge_plot_location_range_in_order(app1, app2) ==
    IF IsNone(app1) \/ IsNone(app2) THEN Err(MERGE_ERR_MSG)
    ELSE LET p1 == Unwrap(app1)
             p2 == Unwrap(app2)
         IN  IF p1.kind # "Period" \/ p2.kind # "Period" THEN Err(MERGE_ERR_MSG)
             ELSE IF p1.period_type # p2.period_type THEN Err(TYPE_ERR_MSG)
             ELSE Ok(Period(p1.period_type, p1.start, p2.end))

merge_plot_location_range(app1, app2) ==
    IF IsNone(app1) \/ IsNone(app2) THEN Err(MERGE_ERR_MSG)
    ELSE LET p1 == Unwrap(app1)
             p2 == Unwrap(app2)
         IN  IF p1.kind # "Period" \/ p2.kind # "Period" THEN Err(MERGE_ERR_MSG)
             ELSE IF p1.period_type # p2.period_type THEN Err(TYPE_ERR_MSG)
             ELSE LET start == merge(p1.start, p2.start)
                      end == merge(p1.end, p2.end)
                  IN  IF ~start.ok THEN Err(start.err)
                      ELSE IF ~end.ok THEN Err(end.err)
                      ELSE Ok(Period(p1.period_type, start.value, end.value))

\* plot_point_processors.rs process_if_stage_boundary, which
\* row_processing.rs calls process_stage_boundaries
process_stage_boundaries(csv_row, stage_boundary_points) ==
    IF ~is_stage_boundary(csv_row)
    THEN [ret |-> None, stage_boundary_points |-> stage_boundary_points]
    ELSE LET popped == Top(stage_boundary_points)
             start_location ==
                 IF IsNone(popped) THEN PlotLocation_new(csv_row)
                 ELSE [Unwrap(popped) EXCEPT !.stage = Unwrap(csv_row.parsed_stage)]
         IN  [ret |-> Some(Ok(Period("Stage", Some(start_location),
                                     Some(PlotLocation_new(csv_row))))),
              stage_boundary_points |->
                  Append(PopBack(stage_boundary_points), PlotLocation_new(csv_row))]

\* plot_point_processors.rs process_cpr_lines
merge_process_cpr_lines(points, csv_row) ==
    LET cpr == util_check_cpr(csv_row)
    IN  IF IsNone(cpr) THEN [ret |-> None, cpr_points |-> points]
        ELSE LET previous_cpr == Top(points)
             IN  IF IsSome(previous_cpr)
                 THEN [ret |-> Some(merge_plot_location_range(cpr, previous_cpr)),
                       cpr_points |-> PopBack(points)]
                 ELSE [ret |-> None, cpr_points |-> Append(points, Unwrap(cpr))]

\* row_processing.rs log_skipped_row
log_skipped_row(idx) == None

\* row_processing.rs process_csv_row, after the record parsed: the buffer
\* update and the stage boundary, CPR, erroneous action and action point steps
merge_process_current_row(idx, current_row, state) ==
    LET recent == update_recent_rows(current_row, state.recent_rows,
                                     state.max_rows_to_check)
        sb == process_stage_boundaries(current_row, state.stage_boundaries)
        st1 == [state EXCEPT !.recent_rows = recent,
                             !.stage_boundaries = sb.stage_boundary_points]
    IN  IF IsSome(sb.ret) THEN [ret |-> sb.ret, state |-> st1]
        ELSE
        LET cpr == merge_process_cpr_lines(st1.cpr_points, current_row)
            st2 == [st1 EXCEPT !.cpr_points = cpr.cpr_points]
        IN  IF IsSome(cpr.ret) THEN [ret |-> cpr.ret, state |-> st2]
            ELSE
            LET ea == process_erroneous_action(st2.recent_rows,
                          st2.pending_error_marker, idx, current_row)
                st3 == [st2 EXCEPT !.pending_error_marker = ea.pending_error_marker]
                ap == process_action_point(current_row)
            IN  IF IsSome(ea.ret) THEN [ret |-> ea.ret, state |-> st3]
                ELSE IF IsSome(ap) THEN [ret |-> ap, state |-> st3]
                ELSE [ret |-> log_skipped_row(idx), state |-> st3]

\* row_processing.rs process_csv_row
merge_process_csv_row(idx, result, state) ==
    LET parsed == parse_csv_row(result, idx)
    IN  IF ~parsed.ok THEN [ret |-> Some(Err(parsed.err)), state |-> state]
        ELSE merge_process_current_row(idx, parsed.row, state)

MergeProcessCsvRow ==
    /\ row_idx < MaxRows
    /\ \E result \in Results :
           Yield(result, merge_process_csv_row(row_idx, result, State))

NextMerge == MergeProcessCsvRow

SpecMerge == Init /\ [][NextMerge]_vars

(***************************************************************************)
(* The command-line pipeline (main.rs stream_csv_with_errors): a map, not  *)
(* a filter_map, so every record yields one item, Ok(None) for a record    *)
(* that is no point.  An item is Ok(Option of a point) or Err.             *)
(***************************************************************************)

\* the locals of stream_csv_with_errors without the push of line 51
stream_csv_with_errors_init_empty(max_rows) ==
    [max_rows_to_check |-> max_rows,
     recent_rows |-> <<>>,
     cpr_points |-> <<>>,
     stage_boundaries |-> <<>>,
     pending_error_marker |-> None]

\* the locals of stream_csv_with_errors before the first record (lines 42-51)
stream_csv_with_errors_init(max_rows) ==
    [max_rows_to_check |-> max_rows,
     recent_rows |-> <<>>,
     cpr_points |-> <<>>,
     stage_boundaries |-> <<PlotLocation_default>>,
     pending_error_marker |-> None]

\* main.rs process_if_stage_boundary
process_if_stage_boundary(stage_boundary_points, csv_row) ==
    IF csv_row.stage_boundary
    THEN LET popped == Top(stage_boundary_points)
         IN  IF IsSome(popped)
             THEN LET start_location ==
                          [Unwrap(popped) EXCEPT !.stage = Unwrap(csv_row.parsed_stage)]
                  IN  [ret |-> Some(Ok(Some(Period("Stage", Some(start_location),
                                                   Some(PlotLocation_new(csv_row)))))),
                       stage_boundary_points |->
                           Append(PopBack(stage_boundary_points),
                                  PlotLocation_new(csv_row))]
             ELSE [ret |-> None,
                   stage_boundary_points |->
                       Append(stage_boundary_points, PlotLocation_new(csv_row))]
    ELSE [ret |-> None, stage_boundary_points |-> stage_boundary_points]

\* main.rs process_if_cpr
process_if_cpr(points, csv_row) ==
    LET cpr == util_check_cpr(csv_row)
    IN  IF IsNone(cpr) THEN [ret |-> None, cpr_points |-> points]
        ELSE LET previous_cpr == Top(points)
             IN  IF IsSome(previous_cpr)
                 THEN LET merged == merge_plot_location_range(cpr, previous_cpr)
                      IN  [ret |-> Some(IF merged.ok THEN Ok(Some(merged.point))
                                        ELSE Err(merged.err)),
                           cpr_points |-> PopBack(points)]
                 ELSE [ret |-> Some(Ok(None)),
                       cpr_points |-> Append(points, Unwrap(cpr))]

\* main.rs is_current_row_erroneous_action
is_current_row_erroneous_action(pending, idx, current_row) ==
    IF IsNone(pending) THEN [ret |-> None, pending_error_marker |-> pending]
    ELSE LET error_marker_row == Unwrap(pending)[2]
         IN  IF is_erroneous_action(current_row, error_marker_row)
             THEN [ret |-> Some(ErroneousAction_new(current_row, error_marker_row)),
                   pending_error_marker |-> None]
             ELSE IF ~can_mark_each_other(current_row, error_marker_row)
             THEN [ret |-> None, pending_error_marker |-> None]
             ELSE [ret |-> None, pending_error_marker |-> pending]

\* main.rs seek_erroneous_action_in_visited_rows: an Option of a point
main_seek_erroneous_action_in_visited_rows(visited_rows_buffer, error_marker_row, idx) ==
    LET found == seek_from(visited_rows_buffer, error_marker_row,
                           Len(visited_rows_buffer))
    IN  IF IsSome(found) THEN Some(Unwrap(found).point) ELSE None

\* the closure of stream_csv_with_errors (main.rs lines 62-96), after the
\* record deserialized into current_row
stream_csv_with_errors_current_row(idx, current_row, state) ==
    LET recent == update_recent_rows(current_row, state.recent_rows,
                                     state.max_rows_to_check)
        sb == process_if_stage_boundary(state.stage_boundaries, current_row)
        st1 == [state EXCEPT !.recent_rows = recent,
                             !.stage_boundaries = sb.stage_boundary_points]
    IN  IF IsSome(sb.ret) THEN [ret |-> Unwrap(sb.ret), state |-> st1]
        ELSE
        LET cpr == process_if_cpr(st1.cpr_points, current_row)
            st2 == [st1 EXCEPT !.cpr_points = cpr.cpr_points]
        IN  IF IsSome(cpr.ret) THEN [ret |-> Unwrap(cpr.ret), state |-> st2]
            ELSE
            LET chk == is_current_row_erroneous_action(st2.pending_error_marker,
                                                       idx, current_row)
                st3 == [st2 EXCEPT !.pending_error_marker = chk.pending_error_marker]
            IN  IF IsSome(chk.ret) THEN [ret |-> Ok(chk.ret), state |-> st3]
                ELSE
                LET found == IF current_row.error_action_marker
                             THEN main_seek_erroneous_action_in_visited_rows(
                                      st3.recent_rows, current_row, idx)
                             ELSE None
                    st4 == IF current_row.error_action_marker /\ IsNone(found)
                           THEN [st3 EXCEPT !.pending_error_marker =
                                                Some(<<idx, current_row>>)]
                           ELSE st3
                IN  IF IsSome(found) THEN [ret |-> Ok(found), state |-> st4]
                    ELSE IF current_row.action_point
                    THEN [ret |-> Ok(Some(Action_new(current_row))), state |-> st4]
                    ELSE IF current_row.missed_action_marker
                    THEN [ret |-> Ok(Some(MissedAction_new(current_row))),
                          state |-> st4]
                    ELSE [ret |-> Ok(None), state |-> st4]

\* the closure of stream_csv_with_errors (main.rs lines 53-97); ret is the
\* item the map yields for the record
stream_csv_with_errors_row(idx, result, state) ==
    IF ~result.ok THEN [ret |-> Err("Could not parse row"), state |-> state]
    ELSE
    LET d == deserialize(result.record, idx)
    IN  IF ~d.ok THEN [ret |-> Err("Could not deserialize row"), state |-> state]
        ELSE stream_csv_with_errors_current_row(idx, post_deserialize(d.row), state)

InitMain ==
    /\ \E n \in 0..MaxWindow :
           /\ max_rows_to_check = n
           /\ recent_rows = stream_csv_with_errors_init(n).recent_rows
           /\ stage_boundaries = stream_csv_with_errors_init(n).stage_boundaries
           /\ cpr_points = stream_csv_with_errors_init(n).cpr_points
           /\ pending_error_marker = stream_csv_with_errors_init(n).pending_error_marker
    /\ row_idx = 0
    /\ rows = <<>>
    /\ output = <<>>
    /\ headers = COLUMN_NAMES
    /\ header_validation = validate_csv_header(COLUMN_NAMES)
    /\ merge_calls = <<>>

\* one item of the map of stream_csv_with_errors
StreamCsvRow ==
    /\ row_idx < MaxRows
    /\ \E result \in Results :
           LET r == stream_csv_with_errors_row(row_idx, result, State)
           IN  Yield(result, [ret |-> Some(r.ret), state |-> r.state])

NextMain == StreamCsvRow

SpecMain == InitMain /\ [][NextMain]_vars

(***************************************************************************)
(* Properties.  Positions in rows are 1-based; a line is a row_idx, the    *)
(* 0-based position of the record.                                         *)
(***************************************************************************)
Lines == 0..(Len(rows) - 1)
IsParsed(line) == rows[line + 1].parsed.ok
RowAt(line) == rows[line + 1].parsed.row
Before(line) == rows[line + 1].before
After(line) == rows[line + 1].after
ParsedLines == {l \in Lines : IsParsed(l)}

SecondsOf(row) == IF Len(row.timestamp) = 1 THEN row.timestamp[1].total_seconds ELSE 0
WithinThreshold(r1, r2) ==
    /\ SecondsOf(r1) - SecondsOf(r2) <= 2
    /\ SecondsOf(r2) - SecondsOf(r1) <= 2
IsActionPointRow(row) ==
    Len(row.parsed_stage) = 1 /\ row.subaction_time # "" /\ row.subaction_name # ""
IsErrorMarkerRow(row) ==
    row.old_value = "Error-Triggered" /\ row.score = "Action-Was-Performed"
\* the match of an action row and a marker row as the specification states it
TrueMatch(a, m) ==
    /\ IsActionPointRow(a)
    /\ IsErrorMarkerRow(m)
    /\ m.username = a.action_vital_name
    /\ WithinThreshold(a, m)

Outputs == 1..Len(output)
PointOutputs == {i \in Outputs : output[i].result.ok}
OutputsOfKind(kind) == {i \in PointOutputs : output[i].result.point.kind = kind}
ErrorOutputs == OutputsOfKind("Error")
PeriodOutputs(period_type) ==
    {i \in OutputsOfKind("Period") : output[i].result.point.period_type = period_type}
OutputsOfLine(line) == {i \in Outputs : output[i].line = line}

\* C1: every emitted ErroneousAction pairs an action-point row A with an
\* error-marker row M of the input such that M.username = A.action_vital_name
\* and the two timestamps (a missing one counted as 0) differ by at most 2 s.
C1_ErroneousActionIsTrueMatch ==
    \A i \in ErrorOutputs :
        LET p == output[i].result.point
        IN  /\ p.action_line \in ParsedLines
            /\ p.marker_line \in ParsedLines
            /\ TrueMatch(RowAt(p.action_line), RowAt(p.marker_line))

\* a pair found forward and a pair found backward have both been emitted
C1_Witness ==
    /\ \E i \in ErrorOutputs : output[i].result.point.action_line
                                   > output[i].result.point.marker_line
    /\ \E i \in ErrorOutputs : output[i].result.point.action_line
                                   < output[i].result.point.marker_line

PairOutputs(a, m) ==
    {i \in ErrorOutputs : /\ output[i].result.point.action_line = a
                          /\ output[i].result.point.marker_line = m}
MatchingPair(a, m) ==
    /\ a \in ParsedLines
    /\ m \in ParsedLines
    /\ TrueMatch(RowAt(a), RowAt(m))
Later(a, m) == IF a >= m THEN a ELSE m
\* the step at which the row of a line reaches the marker correlation: it is
\* no stage boundary and it does not close a CPR period
ReachesCorrelation(line) ==
    /\ ~RowAt(line).stage_boundary
    /\ ~(/\ normalize_lowercase(RowAt(line).subaction_name)
                \in CPR_START_MARKERS \cup CPR_END_MARKERS
         /\ Before(line).cpr_points # <<>>)
PendingMatches(line) ==
    /\ Before(line).pending_error_marker # <<>>
    /\ TrueMatch(RowAt(line), Before(line).pending_error_marker[1][2])
\* the earlier row of the pair is at hand when the later one is processed
Available(a, m) ==
    /\ ReachesCorrelation(Later(a, m))
    /\ IF a > m
       THEN Before(a).pending_error_marker = <<(<<m, RowAt(m)>>)>>
       ELSE /\ ~PendingMatches(m)
            /\ \E j \in 1..Len(After(m).recent_rows) :
                   /\ After(m).recent_rows[j].line = a
                   /\ \A k \in (j + 1)..Len(After(m).recent_rows) :
                          ~TrueMatch(After(m).recent_rows[k], RowAt(m))

\* C2 (as claimed): for every error-marker row M and action-point row A that
\* match, exactly one ErroneousAction pairing (A, M) is emitted, while
\* processing whichever of the two rows comes second.
C2_ExactlyOnePerMatchingPair ==
    \A a \in Lines : \A m \in Lines :
        MatchingPair(a, m) =>
            /\ Cardinality(PairOutputs(a, m)) = 1
            /\ \A i \in PairOutputs(a, m) : output[i].line = Later(a, m)

\* C2 (amended): for every matching pair at most one ErroneousAction pairing
\* (A, M) is emitted, and only while processing the later of the two rows;
\* exactly one is emitted when the later row reaches the correlation step
\* and the earlier row is then at hand (as the pending marker, or as the
\* most recent matching row of the lookback buffer).
C2_AtMostOnePerMatchingPair ==
    \A a \in Lines : \A m \in Lines :
        MatchingPair(a, m) =>
            /\ Cardinality(PairOutputs(a, m)) <= 1
            /\ \A i \in PairOutputs(a, m) : output[i].line = Later(a, m)
            /\ Available(a, m) => Cardinality(PairOutputs(a, m)) = 1

\* two action rows match the same marker, which follows them: the marker is
\* paired with the more recent one only
C2_Witness ==
    \E a1 \in Lines : \E a2 \in Lines : \E m \in Lines :
        /\ a1 < a2 /\ a2 < m
        /\ MatchingPair(a1, m) /\ MatchingPair(a2, m)
        /\ Available(a2, m)
        /\ PairOutputs(a2, m) # {}
        /\ PairOutputs(a1, m) = {}

Subject(i) ==
    IF output[i].result.point.kind = "Period" THEN output[i].line
    ELSE output[i].result.point.action_line
SubjectOutputs(line) == {i \in PointOutputs : Subject(i) = line}

\* C4 (as claimed): each input row is the subject of at most one emitted
\* point over the whole run.
C4_RowSubjectOfOnePoint ==
    \A l \in Lines : Cardinality(SubjectOutputs(l)) <= 1

\* C4 (amended): no row is classified twice as the current row: a row
\* triggers at most one point, and a point is about the row that triggered
\* it unless it is an ErroneousAction found by backward search, which is
\* about an earlier action-point row still in the lookback buffer (a row
\* that may already have been emitted as Action).
C4_RowClassifiedOnceAsCurrent ==
    /\ \A l \in Lines : Cardinality(OutputsOfLine(l)) <= 1
    /\ \A i \in PointOutputs :
           \/ Subject(i) = output[i].line
           \/ /\ output[i].result.point.kind = "Error"
              /\ output[i].result.point.marker_line = output[i].line
              /\ Subject(i) < output[i].line
              /\ Subject(i) \in ParsedLines
              /\ IsActionPointRow(RowAt(Subject(i)))
              /\ \E j \in 1..Len(After(output[i].line).recent_rows) :
                     After(output[i].line).recent_rows[j].line = Subject(i)

\* an action row was emitted as Action and again as ErroneousAction
C4_Witness ==
    \E i \in OutputsOfKind("Action") : \E j \in ErrorOutputs :
        /\ Subject(i) = Subject(j) /\ i < j
        /\ output[j].result.point.marker_line = output[j].line

BoundaryLines == {l \in ParsedLines : RowAt(l).stage_boundary}
\* the items of the command-line pipeline that are Stage periods
MainStagePeriods ==
    {i \in Outputs : /\ output[i].result.ok
                     /\ Len(output[i].result.point) = 1
                     /\ output[i].result.point[1].kind = "Period"
                     /\ output[i].result.point[1].period_type = "Stage"}

\* C5 (as claimed): a log with k >= 1 stage-boundary rows emits exactly k-1
\* Period(Stage) points, the first boundary row emitting nothing.
C5_StagePeriodsOneLessThanBoundaries ==
    Cardinality(BoundaryLines) >= 1 =>
        /\ Cardinality(MainStagePeriods) = Cardinality(BoundaryLines) - 1
        /\ \A l \in BoundaryLines :
               (\A l2 \in BoundaryLines : l <= l2) =>
                   \A i \in MainStagePeriods : output[i].line # l

\* C5 (amended): the tracker starts with the default location (timestamp 0),
\* so every stage-boundary row, the first one included, emits one
\* Period(Stage): k boundary rows emit exactly k periods, and the period of
\* the first boundary row starts at the default timestamp with that row's
\* stage.
C5_OneStagePeriodPerBoundary ==
    /\ Cardinality(MainStagePeriods) = Cardinality(BoundaryLines)
    /\ \A i \in MainStagePeriods : output[i].line \in BoundaryLines
    /\ \A l \in BoundaryLines :
           /\ \E i \in MainStagePeriods : output[i].line = l
           /\ (\A l2 \in BoundaryLines : l <= l2) =>
                  \A i \in MainStagePeriods :
                      output[i].line = l =>
                          /\ output[i].result.point[1].start[1].timestamp
                                 = CsvRowTime_default
                          /\ output[i].result.point[1].start[1].stage
                                 = RowAt(l).parsed_stage[1]

\* a lone boundary row with a timestamp, followed by another row
C5_Witness ==
    /\ Cardinality(BoundaryLines) = 1
    /\ \E l \in BoundaryLines : l + 1 \in Lines /\ SecondsOf(RowAt(l)) > 0

\* C6: a parsed row that is no stage boundary emits no Period(Stage) for
\* itself and leaves the stage tracker as it was.
C6_NonBoundaryLeavesStageTracker ==
    \A l \in ParsedLines :
        ~RowAt(l).stage_boundary =>
            /\ After(l).stage_boundaries = Before(l).stage_boundaries
            /\ \A i \in PeriodOutputs("Stage") : output[i].line # l

\* an action row of a stage was processed while the tracker held the location
\* of a boundary row
C6_Witness ==
    \E l \in ParsedLines :
        /\ ~RowAt(l).stage_boundary
        /\ Len(RowAt(l).parsed_stage) = 1
        /\ Before(l).stage_boundaries # <<PlotLocation_default>>

\* the boundary row that immediately precedes a line, if any
PrecedingBoundary(l) ==
    {b \in BoundaryLines : b < l /\ \A b2 \in BoundaryLines : b2 < l => b2 <= b}

\* C7: a Period(Stage, start, end) emitted on a boundary row R that is not
\* the first boundary has end = R's location, start.stage = end.stage = R's
\* parsed stage, and start.timestamp = the timestamp of the boundary row just
\* before R; consecutive Stage periods are contiguous.
C7_StagePeriodEndpoints ==
    /\ \A i \in PeriodOutputs("Stage") :
           LET l == output[i].line
               p == output[i].result.point
           IN  \A b \in PrecedingBoundary(l) :
                   /\ p.end = PlotLocation_new(RowAt(l))
                   /\ p.start.stage = RowAt(l).parsed_stage[1]
                   /\ p.end.stage = RowAt(l).parsed_stage[1]
                   /\ p.start.timestamp = PlotLocation_new(RowAt(b)).timestamp
    /\ \A i \in PeriodOutputs("Stage") : \A j \in PeriodOutputs("Stage") :
           (i < j /\ \A k \in PeriodOutputs("Stage") : ~(i < k /\ k < j)) =>
               output[j].result.point.start.timestamp
                   = output[i].result.point.end.timestamp

\* a boundary of another stage and a later time closes the stage opened by an
\* earlier boundary row
C7_Witness ==
    \E i \in PeriodOutputs("Stage") :
        \E b \in PrecedingBoundary(output[i].line) :
            /\ RowAt(b).parsed_stage # RowAt(output[i].line).parsed_stage
            /\ SecondsOf(RowAt(b)) > 0
            /\ SecondsOf(RowAt(b)) < SecondsOf(RowAt(output[i].line))

CprDirection(row) ==
    IF normalize_lowercase(row.subaction_name) \in CPR_START_MARKERS THEN "START"
    ELSE IF normalize_lowercase(row.subaction_name) \in CPR_END_MARKERS THEN "END"
    ELSE "NONE"
CprLines == {l \in ParsedLines : CprDirection(RowAt(l)) # "NONE"}

PendingDirection(points) ==
    IF points = <<>> THEN "NONE"
    ELSE IF Len(points[Len(points)].start) = 1 THEN "START" ELSE "END"
SameDirectionLines ==
    {l \in CprLines : PendingDirection(Before(l).cpr_points) = CprDirection(RowAt(l))}

\* C9: a CPR marker arriving while an event of the same direction is pending
\* yields a merge error for its row, and no Period(CPR) for it.
C9_SameDirectionIsMergeError ==
    \A l \in SameDirectionLines :
        /\ Cardinality(OutputsOfLine(l)) = 1
        /\ \A i \in OutputsOfLine(l) : output[i].result = Err(MERGE_ERR_MSG)

\* a second start marker arrived, at another time, while a start was pending
C9_Witness ==
    \E l \in SameDirectionLines :
        /\ CprDirection(RowAt(l)) = "START"
        /\ Before(l).cpr_points[1].start[1] # PlotLocation_new(RowAt(l))

FailedLines == Lines \ ParsedLines

\* C10: a record that fails to parse or deserialize yields exactly one error
\* result for its row and leaves the lookback buffer, the two trackers and
\* the pending-marker cell as they were; the records after it are processed.
C10_FailedRowLeavesState ==
    \A l \in FailedLines :
        /\ After(l) = Before(l)
        /\ Cardinality(OutputsOfLine(l)) = 1
        /\ \A i \in OutputsOfLine(l) : ~output[i].result.ok
        /\ \A n \in ParsedLines :
               n > l => /\ After(n).recent_rows # <<>>
                        /\ After(n).recent_rows[Len(After(n).recent_rows)] = RowAt(n)

\* a record failed while a marker was pending, and the marker was matched by
\* the record after it
C10_Witness ==
    \E l \in FailedLines :
        /\ Before(l).recent_rows # <<>>
        /\ Before(l).pending_error_marker # <<>>
        /\ \E i \in ErrorOutputs :
               /\ output[i].line > l
               /\ output[i].result.point.marker_line < l

\* the lines whose result is the range-merge error
MergeErrorLines ==
    {l \in ParsedLines : \E i \in OutputsOfLine(l) : output[i].result = Err(MERGE_ERR_MSG)}

\* C11 (as claimed): when a CPR range-merge error is raised for a row, the
\* CPR tracker still holds after the row the pending event it held before
\* it, and the stage tracker and the pending-marker cell are unchanged.
C11_MergeErrorKeepsTrackers ==
    \A l \in MergeErrorLines :
        /\ After(l).cpr_points = Before(l).cpr_points
        /\ After(l).stage_boundaries = Before(l).stage_boundaries
        /\ After(l).pending_error_marker = Before(l).pending_error_marker

\* the parsed rows whose Time Stamp field held text that is not HH:MM:SS
AbsentTimestampLines == {l \in ParsedLines : IsNone(RowAt(l).timestamp)}

\* C12 (as claimed): a row whose timestamp is blank or malformed is rejected
\* as a deserialization error: no row without a timestamp is ever parsed,
\* pushed into the lookback buffer or classified.
C12_NoRowWithoutTimestamp ==
    /\ AbsentTimestampLines = {}
    /\ \A i \in 1..Len(recent_rows) : IsSome(recent_rows[i].timestamp)

\* the marker of line m is left pending by its own row
LeftPending(m) == After(m).pending_error_marker = <<(<<m, RowAt(m)>>)>>

\* C13 (as claimed): when a marker row is followed by an action-point row
\* that matches it, the ErroneousAction of the pair is emitted while the
\* marker row is processed, not while the later action row is processed.
C13_PairEmittedOnMarkerRow ==
    \A m \in ParsedLines, a \in ParsedLines :
        (a > m /\ MatchingPair(a, m) /\ LeftPending(m) /\ ReachesCorrelation(a)) =>
            \A i \in PairOutputs(a, m) : output[i].line = m

\* C13 (amended): an ErroneousAction pairing a marker row with an action-point
\* row that follows it is emitted while the action row is processed, never
\* while the marker row is processed; it is emitted when the marker row left
\* its marker pending and the matching action row is the next row.
C13_PairEmittedOnActionRow ==
    \A m \in ParsedLines, a \in ParsedLines :
        (a > m /\ MatchingPair(a, m)) =>
            /\ \A i \in PairOutputs(a, m) : output[i].line = a
            /\ (LeftPending(m) /\ a = m + 1 /\ ReachesCorrelation(a)) =>
                   \E i \in PairOutputs(a, m) : output[i].line = a

\* a marker row at 0:00:01 left pending and paired on the next row, an action
\* row at 0:00:03
C13_Witness ==
    \E m \in ParsedLines :
        /\ m + 1 \in ParsedLines
        /\ MatchingPair(m + 1, m)
        /\ LeftPending(m)
        /\ SecondsOf(RowAt(m)) = 1
        /\ SecondsOf(RowAt(m + 1)) = 3
        /\ \E i \in PairOutputs(m + 1, m) : output[i].line = m + 1

\* the rows that reach the forward check with a pending marker they match
ForwardMatchLines ==
    {l \in ParsedLines : ReachesCorrelation(l) /\ PendingMatches(l)}

\* C14: when a marker is pending and the current row reaches the forward
\* check and matches it, the row emits exactly one point, the ErroneousAction
\* of the current row and the pending marker, and the pending-marker cell is
\* empty after the row.
C14_ForwardMatchEmitsOnlyThePair ==
    \A l \in ForwardMatchLines :
        /\ Cardinality(OutputsOfLine(l)) = 1
        /\ \A i \in OutputsOfLine(l) :
               /\ output[i].result.ok
               /\ output[i].result.point =
                      ErroneousAction_new(RowAt(l), Before(l).pending_error_marker[1][2])
        /\ After(l).pending_error_marker = None

\* a row that is itself an error marker is paired with the pending marker
\* as the action of the pair
C14_Witness ==
    \E l \in ForwardMatchLines :
        /\ IsErrorMarkerRow(RowAt(l))
        /\ Before(l).pending_error_marker[1][1] < l
        /\ \E i \in OutputsOfLine(l) : output[i].result.point.kind = "Error"

\* the marker pending when the row of a line is read
PendingLine(l) == Before(l).pending_error_marker[1][1]
PendingRow(l) == Before(l).pending_error_marker[1][2]

\* the rows that reach the forward check more than two seconds away from
\* the pending marker
ExpiredLines ==
    {l \in ParsedLines : /\ ReachesCorrelation(l)
                         /\ Before(l).pending_error_marker # None
                         /\ ~WithinThreshold(RowAt(l), PendingRow(l))}

\* C15: when a marker is pending and the current row reaching the forward
\* check is more than two seconds away from it, the marker is dropped from the
\* pending cell (which is left empty, or holding the current row when that
\* row is a marker left pending itself) and no ErroneousAction ever pairs that
\* marker with this row or a later one, matching or not.
C15_ExpiredMarkerNeverPaired ==
    \A l \in ExpiredLines :
        /\ After(l).pending_error_marker \in {None, Some(<<l, RowAt(l)>>)}
        /\ \A a \in ParsedLines : a >= l => PairOutputs(a, PendingLine(l)) = {}

\* a marker dropped by a distant row and followed by a row that matches it
C15_Witness ==
    \E l \in ExpiredLines : \E a \in ParsedLines :
        /\ a > l
        /\ After(l).pending_error_marker = None
        /\ ReachesCorrelation(a)
        /\ MatchingPair(a, PendingLine(l))
        /\ PairOutputs(a, PendingLine(l)) = {}

\* the marker rows that reach the backward search: no stage boundary, no
\* closing CPR row and not paired with the pending marker by the forward check
BackwardLines ==
    {l \in ParsedLines : /\ ReachesCorrelation(l)
                         /\ IsErrorMarkerRow(RowAt(l))
                         /\ ~PendingMatches(l)}
\* the positions of the lookback buffer, as the row of line l leaves it,
\* that hold a row matching the marker of line l
BufferMatches(l) ==
    {j \in 1..Len(After(l).recent_rows) : TrueMatch(After(l).recent_rows[j], RowAt(l))}
MostRecentMatch(l) ==
    After(l).recent_rows[CHOOSE j \in BufferMatches(l) : \A k \in BufferMatches(l) : k <= j]

\* C16: a marker row that reaches the backward search emits the
\* ErroneousAction of the most recent row of the lookback buffer that matches
\* it, and nothing else; only when no buffered row matches is the marker left
\* pending, recorded with the position of its own row.
C16_BackwardUsesMostRecentMatch ==
    \A l \in BackwardLines :
        IF BufferMatches(l) # {}
        THEN /\ \A i \in OutputsOfLine(l) :
                    output[i].result = Ok(ErroneousAction_new(MostRecentMatch(l), RowAt(l)))
             /\ Cardinality(OutputsOfLine(l)) = 1
             /\ After(l).pending_error_marker # Some(<<l, RowAt(l)>>)
        ELSE After(l).pending_error_marker = Some(<<l, RowAt(l)>>)

\* two buffered rows match the marker and the more recent one is paired
C16_Witness ==
    \E l \in BackwardLines :
        /\ Cardinality(BufferMatches(l)) >= 2
        /\ \E i \in OutputsOfLine(l) :
               /\ output[i].result.ok
               /\ output[i].result.point.kind = "Error"
               /\ output[i].result.point.action_line = MostRecentMatch(l).line

\* the marker rows left pending while an older marker was pending
ReplacingLines ==
    {l \in BackwardLines : /\ BufferMatches(l) = {}
                           /\ Before(l).pending_error_marker # None}

\* C17: the pending cell holds at most one marker; a marker row whose
\* backward search fails while an older marker is pending takes the cell, and
\* no ErroneousAction ever pairs the replaced marker with that row or a later
\* one.
C17_NewMarkerReplacesPending ==
    /\ Len(pending_error_marker) <= 1
    /\ \A l \in ReplacingLines :
           /\ After(l).pending_error_marker = Some(<<l, RowAt(l)>>)
           /\ \A a \in ParsedLines : a >= l => PairOutputs(a, PendingLine(l)) = {}

\* the replaced marker was still within two seconds of the replacing row, and
\* a later action row matching both markers is paired with the newer one only
C17_Witness ==
    \E l \in ReplacingLines : \E a \in ParsedLines :
        /\ a > l
        /\ WithinThreshold(RowAt(l), PendingRow(l))
        /\ MatchingPair(a, PendingLine(l))
        /\ PairOutputs(a, PendingLine(l)) = {}
        /\ PairOutputs(a, l) # {}

\* the successfully parsed rows read so far, in arrival order
ParsedRowsInOrder ==
    LET parsed_entries == SelectSeq(rows, LAMBDA r : r.parsed.ok)
    IN  [i \in 1..Len(parsed_entries) |-> parsed_entries[i].parsed.row]
Min(a, b) == IF a <= b THEN a ELSE b
\* the last n elements of a sequence
LastRows(seq, n) == SubSeq(seq, Len(seq) - n + 1, Len(seq))

\* C18 (as claimed): for every window size N, 0 and 1 included, the lookback
\* buffer holds at most N rows: exactly the most recent min(k, N) of the k
\* successfully parsed rows, in arrival order.
C18_BufferHoldsLastNRows ==
    /\ Len(recent_rows) <= max_rows_to_check
    /\ recent_rows = LastRows(ParsedRowsInOrder,
                              Min(Len(ParsedRowsInOrder), max_rows_to_check))

IsMissedActionRow(row) ==
    row.old_value = "Error-Triggered" /\ row.score = "Action-Was-Not-Performed"
IsCprRow(row) ==
    normalize_lowercase(row.subaction_name) \in CPR_START_MARKERS \cup CPR_END_MARKERS
\* the rows for which no earlier step produced a point: no stage boundary, no
\* CPR row, no forward match and no backward match
FallThroughLines ==
    {l \in ParsedLines : /\ ReachesCorrelation(l)
                         /\ ~IsCprRow(RowAt(l))
                         /\ ~PendingMatches(l)
                         /\ ~(IsErrorMarkerRow(RowAt(l)) /\ BufferMatches(l) # {})}
\* the points that stream_csv_with_errors yields for a line
MainPointsOfLine(l) ==
    {output[i].result.point[1] :
        i \in {j \in OutputsOfLine(l) : /\ output[j].result.ok
                                        /\ output[j].result.point # None}}

\* C19 (as claimed): when no earlier step produced a point, a row that is a
\* missed action emits MissedAction and not Action even when it is an action
\* point too, a row that is only an action point emits Action, and a row that
\* is neither emits nothing.
C19_MissedActionBeforeAction ==
    \A l \in FallThroughLines :
        MainPointsOfLine(l) =
            IF IsMissedActionRow(RowAt(l)) THEN {MissedAction_new(RowAt(l))}
            ELSE IF IsActionPointRow(RowAt(l)) THEN {Action_new(RowAt(l))}
            ELSE {}

\* the marker rows whose backward search fails
UnmatchedMarkerLines == {l \in BackwardLines : BufferMatches(l) = {}}

\* C20 (as claimed): an error-marker row whose backward search fails is
\* stored as the pending marker and no point at all is emitted for that row,
\* even when the row is an action point too.
C20_UnmatchedMarkerEmitsNothing ==
    \A l \in UnmatchedMarkerLines :
        /\ After(l).pending_error_marker = Some(<<l, RowAt(l)>>)
        /\ OutputsOfLine(l) = {}

\* the records the reader yielded so far, in order
Inputs == [i \in 1..Len(rows) |-> rows[i].result]
\* the same record deserialized while the clock reads another date
AtDay(result, day) ==
    IF result.ok THEN [result EXCEPT !.record.now = day] ELSE result

\* process_csv run from a fresh state over a sequence of records: the
\* sequence of the results it yields, each with the index of its record
RECURSIVE run_from(_, _, _, _)
run_from(inputs, idx, st, out) ==
    IF idx >= Len(inputs) THEN out
    ELSE LET r == process_csv_row(idx, inputs[idx + 1], st)
         IN  run_from(inputs, idx + 1, r.state,
                      IF IsSome(r.ret)
                      THEN Append(out, [line |-> idx, result |-> Unwrap(r.ret)])
                      ELSE out)
process_csv_run(inputs, max_rows) ==
    run_from(inputs, 0, CsvProcessingState_new(max_rows), <<>>)

\* C21 (as claimed): running the pipeline again on the same row sequence with
\* the same window size, at whatever date, yields the same output sequence:
\* the same points with the same field values, the same errors, the same
\* order.
C21_RerunGivesSameOutput ==
    \A day \in {FirstDay, NextDay} :
        process_csv_run([i \in 1..Len(Inputs) |-> AtDay(Inputs[i], day)],
                        max_rows_to_check) = output

\* the results yielded for the first k records
OutputOfPrefix(k) == SelectSeq(output, LAMBDA o : o.line < k)

MaxDetect == 1

DetectShapes ==
    {Shape(vital, sub_time, sub_name, score, old_value, new_value, "", "") :
        vital \in {Stage1Name, VitalName},
        sub_time \in {"", " ", "0:01"},
        sub_name \in {"", " ", "check pulse", "Begin CPR"},
        score \in {"", " ", "Action-Was-Performed", "Action-Was-Not-Performed"},
        old_value \in {"", " ", "Error-Triggered"},
        new_value \in {"", " "}}
DetectResults ==
    {[ok |-> TRUE, record |-> RawRecord(<<"0", "00", "01">>, sh, FirstDay)] : sh \in DetectShapes}

DetectCsvRow ==
    /\ row_idx < MaxDetect
    /\ \E result \in DetectResults :
           Yield(result, process_csv_row(row_idx, result, State))

NextDetect == DetectCsvRow

SpecDetect == Init /\ [][NextDetect]_vars

\* a field is blank when nothing is left of it after trimming
IsBlank(field) == trim(field) = ""

\* C23 (as claimed): with every comparison made on trimmed text, a row with
\* a parsed stage whose subaction-time, subaction-name, score, old-value and
\* new-value are all empty or whitespace-only is a stage boundary, and a row
\* with a parsed stage is an action point iff its trimmed subaction-time and
\* its trimmed subaction-name are both non-empty.
C23_PredicatesOnTrimmedText ==
    \A l \in ParsedLines :
        LET row == RowAt(l)
        IN  IsSome(row.parsed_stage) =>
                /\ (/\ IsBlank(row.subaction_time)
                    /\ IsBlank(row.subaction_name)
                    /\ IsBlank(row.score)
                    /\ IsBlank(row.old_value)
                    /\ IsBlank(row.new_value)) => row.stage_boundary
                /\ row.action_point <=>
                       (~IsBlank(row.subaction_time) /\ ~IsBlank(row.subaction_name))

(***************************************************************************)
(* The time functions: the same pipeline read over action and marker rows  *)
(* with well-formed, malformed and overflowing timestamps.  A panic ends   *)
(* the run.                                                                *)
(***************************************************************************)
MaxTimed == 2

OverflowTime == <<"1193047", "00", "00">>
TimeInputs ==
    {<<"0", "00", "01">>, <<"0", "00", "03">>, <<"1", "00", "00">>,
     <<"01", "00", "02">>, <<"0", "59", "59">>, <<"+5", "00", "00">>,
     <<"0", "60", "00">>, <<"0", "00", "60">>, <<"0", "75", "00">>,
     <<"0", "00">>, <<"0", "00", "01", "00">>, <<"x", "00", "01">>,
     <<"-1", "00", "00">>, <<"4294967296", "00", "00">>, OverflowTime}
TimedShapes == {Action1, Marker1}
TimedResults ==
    {[ok |-> TRUE, record |-> RawRecord(t, sh, FirstDay)] :
        t \in TimeInputs, sh \in TimedShapes}
      \cup {[ok |-> TRUE,
             record |-> [RawRecord(OverflowTime, sh, FirstDay)
                             EXCEPT !.overflow_checks = TRUE]] : sh \in TimedShapes}

Panicked == \E i \in 1..Len(output) : output[i].result = Err(PANIC_MSG)

TimedCsvRow ==
    /\ row_idx < MaxTimed
    /\ ~Panicked
    /\ \E result \in TimedResults :
           Yield(result, process_csv_row(row_idx, result, State))

NextTimed == TimedCsvRow

SpecTimed == Init /\ [][NextTimed]_vars

\* C24: can_mark_each_other is symmetric and holds exactly when the two
\* times, a missing timestamp counting as 0 seconds, differ by at most 2
\* seconds, 2 included.
C24_CanMarkEachOtherIsSymmetricWithin2 ==
    \A l1 \in ParsedLines, l2 \in ParsedLines :
        LET r1 == RowAt(l1)
            r2 == RowAt(l2)
        IN  /\ can_mark_each_other(r1, r2) = can_mark_each_other(r2, r1)
            /\ can_mark_each_other(r1, r2) <=>
                   (/\ SecondsOf(r1) - SecondsOf(r2) <= 2
                    /\ SecondsOf(r2) - SecondsOf(r1) <= 2)

\* a row without timestamp and a row at 01:00:00 cannot mark each other
C24_Witness ==
    \E l1 \in ParsedLines, l2 \in ParsedLines :
        /\ IsNone(RowAt(l1).timestamp)
        /\ IsSome(RowAt(l2).timestamp)
        /\ RowAt(l2).timestamp[1].timestamp = "01:00:00"
        /\ SecondsOf(RowAt(l2)) = 3600
        /\ ~can_mark_each_other(RowAt(l1), RowAt(l2))
        /\ can_mark_each_other(RowAt(l1), RowAt(l1))

\* the number a part denotes when it is the decimal text of a non-negative
\* integer, as a sequence of length 0 or 1
DecimalValue(part) ==
    CASE part \in {"0", "00"} -> <<0>>
      [] part \in {"1", "01"} -> <<1>>
      [] part = "02" -> <<2>>
      [] part \in {"3", "03"} -> <<3>>
      [] part = "+5" -> <<5>>
      [] part = "59" -> <<59>>
      [] part = "60" -> <<60>>
      [] part = "75" -> <<75>>
      [] part = "1193047" -> <<1193047>>
      [] OTHER -> <<>>
\* a number in two decimal digits at least
ZeroPadded(n) ==
    CASE n = 0 -> "00" [] n = 1 -> "01" [] n = 2 -> "02" [] n = 3 -> "03"
      [] n = 5 -> "05" [] n = 59 -> "59" [] n = 1193047 -> "1193047"
\* hours*3600 + minutes*60 + seconds as an exact integer, written as its
\* quotient and remainder by 2^16
ExactSeconds(hours, minutes, seconds) ==
    LET low == (hours % 65536) * 3600 + minutes * 60 + seconds
    IN  [high |-> (hours \div 65536) * 3600 + (low \div 65536), low |-> low % 65536]
\* the records whose timestamp field parse_time accepted
AcceptedLines == {l \in ParsedLines : IsSome(RowAt(l).timestamp)}

\* C27 (as claimed): parse_time returns a timestamp only for an input of
\* exactly three non-negative integer parts with minutes < 60 and seconds <
\* 60; for every accepted input total_seconds is exactly hours*3600 +
\* minutes*60 + seconds, whatever the hours value, and the normalized string
\* is the zero-padded HH:MM:SS of the three numbers.
C27_ParseTimeExact ==
    \A l \in AcceptedLines :
        LET input == rows[l + 1].result.record.timestamp
            time == RowAt(l).timestamp[1]
        IN  /\ Len(input) = 3
            /\ \A i \in 1..3 : DecimalValue(input[i]) # <<>>
            /\ LET hours == DecimalValue(input[1])[1]
                   minutes == DecimalValue(input[2])[1]
                   seconds == DecimalValue(input[3])[1]
               IN  /\ minutes < 60
                   /\ seconds < 60
                   /\ time.total_seconds \div 65536
                          = ExactSeconds(hours, minutes, seconds).high
                   /\ time.total_seconds % 65536
                          = ExactSeconds(hours, minutes, seconds).low
                   /\ time.timestamp = ZeroPadded(hours) \o ":" \o ZeroPadded(minutes)
                                           \o ":" \o ZeroPadded(seconds)

(***************************************************************************)
(* stream_csv_with_errors of main.rs over files with any header row: the   *)
(* header is validated once, before the first record is read.              *)
(***************************************************************************)
MaxHeaderRows == 1

CaseChanged ==
    <<"time Stamp[Hr:Min:Sec]", "ActioN/Vital Name", "SubAction Time[Min:Sec]",
      "SubAction Name", "SCORE", "Old Value", "New Value", "Username",
      "Speech Command">>
HeaderRows ==
    {COLUMN_NAMES,
     CaseChanged,
     \* an extra trailing column
     CaseChanged \o <<"Extra Column">>,
     \* the Score column is missing
     SubSeq(COLUMN_NAMES, 1, 4) \o SubSeq(COLUMN_NAMES, 6, 9),
     \* the last column is missing
     SubSeq(COLUMN_NAMES, 1, 8),
     \* the first two columns change places
     <<COLUMN_NAMES[2], COLUMN_NAMES[1]>> \o SubSeq(COLUMN_NAMES, 3, 9),
     \* an unknown column among the required ones
     SubSeq(COLUMN_NAMES, 1, 2) \o <<"Unknown Header">> \o SubSeq(COLUMN_NAMES, 3, 9),
     \* no column at all
     <<>>}

\* the records are read only after a header that passed the validation
reads_records_only_if_valid(validation) == validation.ok

\* main.rs lines 47-49: an Err of validate_csv_header is only logged, and the
\* records are read whatever the validation returned
reads_records_after(validation) == TRUE

InitHeader ==
    /\ \E n \in 0..MaxWindow :
           /\ max_rows_to_check = n
           /\ recent_rows = stream_csv_with_errors_init(n).recent_rows
           /\ stage_boundaries = stream_csv_with_errors_init(n).stage_boundaries
           /\ cpr_points = stream_csv_with_errors_init(n).cpr_points
           /\ pending_error_marker = stream_csv_with_errors_init(n).pending_error_marker
    /\ row_idx = 0
    /\ rows = <<>>
    /\ output = <<>>
    /\ \E h \in HeaderRows :
           /\ headers = h
           /\ header_validation = validate_csv_header(h)
    /\ merge_calls = <<>>

HeaderCsvRow ==
    /\ row_idx < MaxHeaderRows
    /\ reads_records_after(header_validation)
    /\ \E result \in Results :
           LET r == stream_csv_with_errors_row(row_idx, result, State)
           IN  Yield(result, [ret |-> Some(r.ret), state |-> r.state])

NextHeader == HeaderCsvRow

SpecHeader == InitHeader /\ [][NextHeader]_vars

\* every expected column name equals, ignoring case, the header at its place
HeaderMatches ==
    \A i \in 1..Len(COLUMN_NAMES) :
        /\ i <= Len(headers)
        /\ to_lowercase(headers[i]) = to_lowercase(COLUMN_NAMES[i])

\* C25: validate_header succeeds exactly when every expected column name
\* equals, ignoring case, the actual header at the same position, whatever
\* columns follow the expected ones; otherwise it fails with the message
\* naming line 1, the expected header list and the actual header list.
C25_HeaderValidPositionByPosition ==
    /\ header_validation.ok <=> HeaderMatches
    /\ ~header_validation.ok =>
           header_validation.err =
               [line |-> 1, expected |-> COLUMN_NAMES, got |-> headers]

\* a header row accepted with names in another case and a trailing column
C25_Witness ==
    /\ header_validation.ok
    /\ Len(headers) > Len(COLUMN_NAMES)
    /\ headers[1] # COLUMN_NAMES[1]
    /\ row_idx > 0

ParsedDistance(a, l) == Cardinality({p \in ParsedLines : a < p /\ p <= l})
\* the rows before the marker of line l, or that row itself, that match it
MatchesBefore(l) == {a \in ParsedLines : a <= l /\ TrueMatch(RowAt(a), RowAt(l))}

\* C28 (as claimed): with a window of N rows, a marker row that reaches the
\* backward search is never paired with a row lying N or more parsed rows
\* before it, and a matching row within the last N rows before it is paired
\* with it when no more recent row matches.
C28_BackwardSearchWithinWindow ==
    \A l \in BackwardLines :
        /\ \A a \in MatchesBefore(l) :
               ParsedDistance(a, l) >= max_rows_to_check =>
                   \A i \in OutputsOfLine(l) : output[i].result.point.action_line # a
        /\ \A a \in MatchesBefore(l) :
               (/\ ParsedDistance(a, l) <= max_rows_to_check
                /\ \A b \in MatchesBefore(l) : b <= a) =>
                   \E i \in PairOutputs(a, l) : output[i].line = l

\* C29: after any sequence of rows the stage tracker holds at most one
\* location and the CPR tracker holds at most one pending event.
C29_TrackersAreSingleSlot ==
    /\ Len(stage_boundaries) <= 1
    /\ Len(cpr_points) <= 1

\* both trackers are full: a boundary row was read and a CPR start is open
C29_Witness ==
    /\ Len(stage_boundaries) = 1
    /\ Len(cpr_points) = 1
    /\ \E l \in ParsedLines : RowAt(l).stage_boundary
    /\ \E l \in ParsedLines : IsCprRow(RowAt(l)) /\ l > 0

(***************************************************************************)
(* process_stage_boundary called on its own, as its unit tests call it:    *)
(* the tracker starts empty (Vec::new()) and each call hands it one row.   *)
(***************************************************************************)
MaxCalls == 2

InitStageCalls ==
    /\ max_rows_to_check = 0
    /\ recent_rows = <<>>
    /\ stage_boundaries = <<>>
    /\ cpr_points = <<>>
    /\ pending_error_marker = None
    /\ row_idx = 0
    /\ rows = <<>>
    /\ output = <<>>
    /\ headers = COLUMN_NAMES
    /\ header_validation = validate_csv_header(COLUMN_NAMES)
    /\ merge_calls = <<>>

ProcessStageBoundaryCall ==
    /\ row_idx < MaxCalls
    /\ \E result \in Results :
           /\ parse_csv_row(result, row_idx).ok
           /\ LET r == process_stage_boundary(stage_boundaries,
                                              parse_csv_row(result, row_idx).row)
              IN  Yield(result,
                        [ret |-> r.ret,
                         state |-> [State EXCEPT !.stage_boundaries =
                                                     r.stage_boundary_points]])

NextStageCalls == ProcessStageBoundaryCall

SpecStageCalls == InitStageCalls /\ [][NextStageCalls]_vars

\* the calls made on a stage-boundary row while the tracker was empty
StageBeginLines ==
    {l \in ParsedLines : RowAt(l).stage_boundary /\ Before(l).stage_boundaries = <<>>}

\* C30: process_stage_boundary called on a stage-boundary row while the
\* tracker is empty returns a Period(Stage) whose start and end are both the
\* location of that row, and leaves exactly that location in the tracker.
C30_StageBeginOnEmptyTracker ==
    \A l \in StageBeginLines :
        /\ \A i \in OutputsOfLine(l) :
               output[i].result = Ok(Period("Stage", PlotLocation_new(RowAt(l)),
                                            PlotLocation_new(RowAt(l))))
        /\ Cardinality(OutputsOfLine(l)) = 1
        /\ After(l).stage_boundaries = <<PlotLocation_new(RowAt(l))>>

\* the first call is made on a boundary row of stage 1 read at 0:00:03
C30_Witness ==
    \E l \in StageBeginLines : \E i \in OutputsOfLine(l) :
        /\ output[i].result.point.start.stage = <<1, "Stage1">>
        /\ output[i].result.point.end.timestamp.total_seconds = 3
        /\ After(l).stage_boundaries # <<>>


(***************************************************************************)
(* process_cpr_lines called on its own, as its unit tests call it: the     *)
(* tracker starts empty (Vec::new()) and each call hands it one row; the   *)
(* value the call returns is what the call yields.                         *)
(***************************************************************************)
MaxCprCalls == 2

InitCprCalls ==
    /\ max_rows_to_check = 0
    /\ recent_rows = <<>>
    /\ stage_boundaries = <<>>
    /\ cpr_points = <<>>
    /\ pending_error_marker = None
    /\ row_idx = 0
    /\ rows = <<>>
    /\ output = <<>>
    /\ headers = COLUMN_NAMES
    /\ header_validation = validate_csv_header(COLUMN_NAMES)
    /\ merge_calls = <<>>

ProcessCprLinesCall ==
    /\ row_idx < MaxCprCalls
    /\ \E result \in Results :
           /\ parse_csv_row(result, row_idx).ok
           /\ LET r == process_cpr_lines(cpr_points, parse_csv_row(result, row_idx).row)
              IN  Yield(result,
                        [ret |-> r.ret,
                         state |-> [State EXCEPT !.cpr_points = r.cpr_points]])

NextCprCalls == ProcessCprLinesCall

SpecCprCalls == InitCprCalls /\ [][NextCprCalls]_vars

\* C31: a call of process_cpr_lines on a CPR-vocabulary row while an entry is
\* stored returns Period(CPR, the stored opening location, the location of
\* the row) and removes the entry; on a CPR-vocabulary row with nothing
\* stored it stores the location of the row and returns no point; on any
\* other row it returns no point and leaves the tracker as it was.
C31_ProcessCprLinesCases ==
    \A l \in ParsedLines :
        LET stored == Before(l).cpr_points
            location == PlotLocation_new(RowAt(l))
        IN  /\ (IsCprRow(RowAt(l)) /\ stored # <<>>) =>
                   /\ \E i \in OutputsOfLine(l) :
                          output[i].result
                              = Ok(Period("CPR", stored[Len(stored)][1], location))
                   /\ Cardinality(OutputsOfLine(l)) = 1
                   /\ After(l).cpr_points = SubSeq(stored, 1, Len(stored) - 1)
            /\ (IsCprRow(RowAt(l)) /\ stored = <<>>) =>
                   /\ OutputsOfLine(l) = {}
                   /\ After(l).cpr_points = <<(<<location, location>>)>>
            /\ ~IsCprRow(RowAt(l)) =>
                   /\ OutputsOfLine(l) = {}
                   /\ After(l).cpr_points = stored

\* a CPR row read at 0:00:01 is stored by the first call and closed by a
\* CPR row read at 0:00:03 in the second
C31_Witness ==
    \E l \in ParsedLines : \E i \in OutputsOfLine(l) :
        /\ IsCprRow(RowAt(l))
        /\ Before(l).cpr_points # <<>>
        /\ After(l).cpr_points = <<>>
        /\ output[i].result.point.kind = "Period"
        /\ output[i].result.point.start.timestamp.total_seconds = 1
        /\ output[i].result.point.end.timestamp.total_seconds = 3


\* the records read so far carry timestamps that never decrease
NonDecreasingTimestamps ==
    \A a \in ParsedLines, b \in ParsedLines :
        a < b => SecondsOf(RowAt(a)) <= SecondsOf(RowAt(b))
\* the CPR rows of direction d read up to line l
CprLinesUpTo(l, d) == {s \in CprLines : s <= l /\ CprDirection(RowAt(s)) = d}

\* C32 (as claimed): when the timestamps never decrease in file order,
\* every emitted Period(CPR, start, end) has the location of a begin/enter
\* CPR row as its start and the location of a stop/end CPR row as its end,
\* and start.total_seconds <= end.total_seconds, also when the end marker
\* is read first and a start marker follows it.
C32_CprPeriodFromStartToEnd ==
    NonDecreasingTimestamps =>
        \A i \in PeriodOutputs("CPR") :
            LET point == output[i].result.point
                l == output[i].line
            IN  /\ \E s \in CprLinesUpTo(l, "START") :
                       point.start = PlotLocation_new(RowAt(s))
                /\ \E e \in CprLinesUpTo(l, "END") :
                       point.end = PlotLocation_new(RowAt(e))
                /\ point.start.timestamp.total_seconds
                       <= point.end.timestamp.total_seconds


(***************************************************************************)
(* merge_plot_location_range called on its own, as its unit tests call it, *)
(* with the half-open and full periods of the tests, a point that is no    *)
(* period, and no point at all.                                            *)
(***************************************************************************)
MaxMergeCalls == 2

plot_location1 ==
    [timestamp |-> [total_seconds |-> 3600, date_string |-> "2024-12-24 01:00:00",
                    timestamp |-> "01:00:00"],
     stage |-> <<1, "Stage 1">>]
plot_location2 ==
    [timestamp |-> [total_seconds |-> 3602, date_string |-> "2024-12-24 01:00:02",
                    timestamp |-> "01:00:02"],
     stage |-> <<2, "Stage 2">>]

PeriodTypes == {"CPR", "Stage"}
MergeArgs ==
    {None}
      \cup {Some(Period(t, Some(plot_location1), None)) : t \in PeriodTypes}
      \cup {Some(Period(t, None, Some(plot_location2))) : t \in PeriodTypes}
      \cup {Some(Period(t, Some(plot_location2), None)) : t \in PeriodTypes}
      \cup {Some(Period(t, Some(plot_location1), Some(plot_location2))) :
                t \in PeriodTypes}
      \cup {Some(Period("CPR", None, None))}
      \cup {Some([kind |-> "Action", location |-> plot_location1])}

InitMergeCalls ==
    /\ max_rows_to_check = 0
    /\ recent_rows = <<>>
    /\ stage_boundaries = <<>>
    /\ cpr_points = <<>>
    /\ pending_error_marker = None
    /\ row_idx = 0
    /\ rows = <<>>
    /\ output = <<>>
    /\ headers = COLUMN_NAMES
    /\ header_validation = validate_csv_header(COLUMN_NAMES)
    /\ merge_calls = <<>>

MergePlotLocationRangeCall ==
    /\ Len(merge_calls) < MaxMergeCalls
    /\ \E app1 \in MergeArgs, app2 \in MergeArgs :
           merge_calls' = Append(merge_calls,
                                 [app1 |-> app1, app2 |-> app2,
                                  ret |-> merge_plot_location_range(app1, app2)])
    /\ UNCHANGED <<max_rows_to_check, recent_rows, stage_boundaries, cpr_points,
                   pending_error_marker, row_idx, rows, output, headers,
                   header_validation>>

NextMergeCalls == MergePlotLocationRangeCall

SpecMergeCalls == InitMergeCalls /\ [][NextMergeCalls]_vars

\* the calls that hand over two periods
PeriodCalls ==
    {i \in 1..Len(merge_calls) :
        /\ IsSome(merge_calls[i].app1) /\ merge_calls[i].app1[1].kind = "Period"
        /\ IsSome(merge_calls[i].app2) /\ merge_calls[i].app2[1].kind = "Period"}
IsStartOnly(p) == IsSome(p.start) /\ IsNone(p.end)
IsEndOnly(p) == IsNone(p.start) /\ IsSome(p.end)

\* C33: merge_plot_location_range is commutative: a start-only and an
\* end-only period of the same period type merge into the same
\* Ok(Period(type, start, end)) in either argument order, and two periods of
\* different period types give an error in either order.
C33_MergeIsCommutative ==
    \A i \in PeriodCalls :
        LET p1 == merge_calls[i].app1[1]
            p2 == merge_calls[i].app2[1]
        IN  /\ (p1.period_type = p2.period_type /\ IsStartOnly(p1) /\ IsEndOnly(p2)) =>
                   /\ merge_calls[i].ret = Ok(Period(p1.period_type, p1.start, p2.end))
                   /\ \A j \in PeriodCalls :
                          (merge_calls[j].app1 = merge_calls[i].app2
                             /\ merge_calls[j].app2 = merge_calls[i].app1) =>
                              merge_calls[j].ret = merge_calls[i].ret
            /\ (p1.period_type = p2.period_type /\ IsEndOnly(p1) /\ IsStartOnly(p2)) =>
                   merge_calls[i].ret = Ok(Period(p1.period_type, p2.start, p1.end))
            /\ p1.period_type # p2.period_type => ~merge_calls[i].ret.ok

\* the two periods of the unit test are merged in one order and then in the
\* other
C33_Witness ==
    /\ Len(merge_calls) = 2
    /\ merge_calls[1].app1 = Some(Period("CPR", Some(plot_location1), None))
    /\ merge_calls[1].app2 = Some(Period("CPR", None, Some(plot_location2)))
    /\ merge_calls[2].app1 = merge_calls[1].app2
    /\ merge_calls[2].app2 = merge_calls[1].app1
    /\ merge_calls[2].ret.ok
    /\ merge_calls[2].ret.point.start = Some(plot_location1)


\* the two rows an ErroneousAction emitted on line l was built from: on a
\* forward match the current row and the pending marker, on a backward match
\* the buffered row that was found and the current row
ActionRowOf(l) == IF l \in ForwardMatchLines THEN RowAt(l) ELSE MostRecentMatch(l)
MarkerRowOf(l) == IF l \in ForwardMatchLines THEN PendingRow(l) ELSE RowAt(l)

\* C34: every emitted ErroneousAction takes its location (timestamp and
\* stage), name, category and shock value from the action row and its error
\* info (rule = subaction name, violation = score, advice = speech command)
\* from the marker row, whether the match was found by backward search or by
\* forward correlation.
C34_ErroneousActionFields ==
    \A i \in ErrorOutputs :
        LET point == output[i].result.point
            l == output[i].line
        IN  /\ l \in ForwardMatchLines \/ (l \in BackwardLines /\ BufferMatches(l) # {})
            /\ point.location.timestamp
                   = UnwrapOr(ActionRowOf(l).timestamp, CsvRowTime_default)
            /\ point.location.stage
                   = UnwrapOr(ActionRowOf(l).parsed_stage, PlotLocation_default.stage)
            /\ point.name = ActionRowOf(l).action_name
            /\ point.action_category = ActionRowOf(l).action_category
            /\ point.shock_value = ActionRowOf(l).shock_value
            /\ point.error_info.action_rule = MarkerRowOf(l).subaction_name
            /\ point.error_info.violation = MarkerRowOf(l).score
            /\ point.error_info.advice = MarkerRowOf(l).speech_command

\* one run emits an ErroneousAction found by forward correlation and one
\* found by backward search, each from two different rows
C34_Witness ==
    /\ \E i \in ErrorOutputs :
           /\ output[i].line \in ForwardMatchLines
           /\ PendingLine(output[i].line) < output[i].line
           /\ output[i].result.point.error_info.action_rule = "Pulse rule"
           /\ output[i].result.point.name = "Check Pulse"
    /\ \E i \in ErrorOutputs :
           /\ output[i].line \in BackwardLines
           /\ MostRecentMatch(output[i].line).line < output[i].line
           /\ output[i].result.point.error_info.violation = "Action-Was-Performed"


\* C35: the row predicates exclude each other: no row is both a stage
\* boundary and an action point, none is both an error marker and a missed
\* action, and a stage-boundary row is no error marker, no missed action and
\* no CPR marker; a stage-boundary row yields its Period(Stage) and never an
\* action point.
C35_PredicatesExcludeEachOther ==
    \A l \in ParsedLines :
        LET row == RowAt(l)
        IN  /\ ~(is_stage_boundary(row) /\ is_action_row(row))
            /\ ~(is_error_action_marker(row) /\ is_missed_action(row))
            /\ is_stage_boundary(row) =>
                   /\ ~is_error_action_marker(row)
                   /\ ~is_missed_action(row)
                   /\ IsNone(check_cpr(row))
                   /\ \A i \in OutputsOfLine(l) :
                          /\ output[i].result.ok
                          /\ output[i].result.point.kind = "Period"
                          /\ output[i].result.point.period_type = "Stage"
            /\ row.stage_boundary = is_stage_boundary(row)
            /\ row.action_point = is_action_row(row)

\* a row whose subaction time is a blank is read as a stage boundary and
\* yields its period
C35_Witness ==
    \E l \in ParsedLines :
        /\ is_stage_boundary(RowAt(l))
        /\ RowAt(l).subaction_time = " "
        /\ OutputsOfLine(l) # {}


\* the ErroneousAction points emitted with the row of line m as their marker
OutputsOfMarker(m) == {i \in ErrorOutputs : output[i].result.point.marker_line = m}
\* the marker rows the backward search resolved
ResolvedBackwardLines == {l \in BackwardLines : BufferMatches(l) # {}}

\* C36: each error-marker row is the marker of at most one emitted
\* ErroneousAction over the whole run: a marker resolved by backward search
\* is never stored as pending, and a pending marker is cleared at the moment
\* it is matched.
C36_MarkerPairedAtMostOnce ==
    /\ \A m \in ParsedLines : Cardinality(OutputsOfMarker(m)) <= 1
    /\ \A l \in ResolvedBackwardLines :
           /\ OutputsOfMarker(l) # {}
           /\ \A k \in ParsedLines :
                  k >= l => (/\ After(k).pending_error_marker # Some(<<l, RowAt(l)>>)
                             /\ \A i \in OutputsOfMarker(l) : output[i].line = l)
    /\ \A l \in ForwardMatchLines :
           /\ OutputsOfMarker(PendingLine(l)) # {}
           /\ After(l).pending_error_marker = None
           /\ \A i \in OutputsOfMarker(PendingLine(l)) : output[i].line = l

\* a marker resolved by backward search is followed by an action row that
\* matches it and reaches the forward check: the marker is not paired a
\* second time
C36_Witness ==
    \E l \in ResolvedBackwardLines : \E k \in ParsedLines :
        /\ k > l
        /\ ReachesCorrelation(k)
        /\ TrueMatch(RowAt(k), RowAt(l))
        /\ ~IsErrorMarkerRow(RowAt(k))
        /\ Cardinality(OutputsOfMarker(l)) = 1


\* the rows that reach the forward check while a marker is pending, lie
\* within the time threshold of it and do not match it
SurvivableLines ==
    {l \in ParsedLines : /\ ReachesCorrelation(l)
                         /\ IsSome(Before(l).pending_error_marker)
                         /\ WithinThreshold(RowAt(l), PendingRow(l))
                         /\ ~PendingMatches(l)}

\* C37 (as claimed): a pending marker survives any row that reaches the
\* forward check, is within the 2-second threshold of it and does not match
\* it: the pending-marker cell is unchanged by that row.
C37_PendingSurvivesEveryNonMatchingRow ==
    \A l \in SurvivableLines :
        After(l).pending_error_marker = Before(l).pending_error_marker

\* C37 (amended): such a row leaves the pending-marker cell unchanged unless
\* it is itself an error marker that the backward search does not resolve,
\* which then takes the place of the pending marker; when the cell is
\* unchanged, a next row that reaches the forward check and matches the
\* marker is paired with it.
C37_PendingSurvivesUnlessReplaced ==
    \A l \in SurvivableLines :
        IF IsErrorMarkerRow(RowAt(l)) /\ BufferMatches(l) = {}
        THEN After(l).pending_error_marker = Some(<<l, RowAt(l)>>)
        ELSE /\ After(l).pending_error_marker = Before(l).pending_error_marker
             /\ (l + 1) \in ForwardMatchLines =>
                    \E i \in OutputsOfLine(l + 1) :
                        /\ output[i].result.ok
                        /\ output[i].result.point.kind = "Error"
                        /\ output[i].result.point.marker_line = PendingLine(l)

\* a marker is left pending, a row that is no action point passes the forward
\* check within the threshold, and the next row is paired with the marker
C37_Witness ==
    \E l \in SurvivableLines :
        /\ ~IsActionPointRow(RowAt(l))
        /\ ~IsErrorMarkerRow(RowAt(l))
        /\ (l + 1) \in ForwardMatchLines
        /\ \E i \in OutputsOfLine(l + 1) :
               /\ output[i].result.ok
               /\ output[i].result.point.kind = "Error"
               /\ output[i].result.point.marker_line = PendingLine(l)
               /\ PendingLine(l) < l


\* what the forward check of line l does to the pending-marker cell: it
\* empties the cell on a match and on a failed time test
AfterForwardCheck(l) ==
    IF /\ IsSome(Before(l).pending_error_marker)
       /\ (PendingMatches(l) \/ ~WithinThreshold(RowAt(l), PendingRow(l)))
    THEN None
    ELSE Before(l).pending_error_marker
\* the pending-marker cell changes on line l only as the forward check
\* changes it or as an unresolved error marker sets it, and a row that emits
\* its point at the stage-boundary or the CPR step leaves it as it was
PendingCellFrame(l) ==
    /\ After(l).pending_error_marker # Before(l).pending_error_marker =>
           /\ ReachesCorrelation(l)
           /\ \/ After(l).pending_error_marker = AfterForwardCheck(l)
              \/ /\ l \in BackwardLines
                 /\ BufferMatches(l) = {}
                 /\ After(l).pending_error_marker = Some(<<l, RowAt(l)>>)
    /\ ~ReachesCorrelation(l) =>
           After(l).pending_error_marker = Before(l).pending_error_marker

\* C38 (as claimed): the pending-marker cell is changed only by the forward
\* check and by an error-marker row whose backward search fails; a row that
\* emits a point at the stage-boundary step or at the CPR step, and an
\* error-marker row resolved by backward search, leave the cell exactly as it
\* was.
C38_ResolvedMarkerLeavesCell ==
    \A l \in ParsedLines :
        /\ PendingCellFrame(l)
        /\ l \in ResolvedBackwardLines =>
               After(l).pending_error_marker = Before(l).pending_error_marker

\* C38 (amended): an error-marker row resolved by backward search leaves the
\* cell as the forward check of that row left it: as it was, or empty when
\* the pending marker failed the time test against the row.
C38_ResolvedMarkerKeepsForwardResult ==
    \A l \in ParsedLines :
        /\ PendingCellFrame(l)
        /\ l \in ResolvedBackwardLines =>
               After(l).pending_error_marker = AfterForwardCheck(l)

\* a stage-boundary row and a marker row resolved by backward search are
\* read while a marker is pending, and the marker is still pending after them
C38_Witness ==
    /\ \E l \in ParsedLines :
           /\ RowAt(l).stage_boundary
           /\ IsSome(Before(l).pending_error_marker)
           /\ After(l).pending_error_marker = Before(l).pending_error_marker
    /\ \E l \in ResolvedBackwardLines :
           /\ IsSome(Before(l).pending_error_marker)
           /\ After(l).pending_error_marker = Before(l).pending_error_marker


\* C39 (as claimed): an ErroneousAction emitted by backward search while
\* the marker row M is processed pairs M with a row strictly earlier than M
\* in file order: the marker row, although already in the lookback buffer,
\* is never matched with itself.
C39_BackwardMatchIsEarlierRow ==
    \A l \in ResolvedBackwardLines :
        \A i \in OutputsOfLine(l) :
            (output[i].result.ok /\ output[i].result.point.kind = "Error") =>
                /\ output[i].result.point.marker_line = l
                /\ output[i].result.point.action_line < l
                /\ MostRecentMatch(l).line < l

====
